---- MODULE Spec2Model ----
(***************************************************************************)
(* A model of the scrcpy WebSocket bridge (src/scrcpy_ws_bridge.py): the   *)
(* incremental H.264 NAL framer, the broadcast of framed units to the      *)
(* connected viewers, and the per-viewer tap/swipe classification.         *)
(*                                                                         *)
(* Bytes are integers 0..255 and byte strings are sequences of bytes.      *)
(* Normalized coordinates are thousandths (0..1000 for 0.0..1.0) and time  *)
(* is in milliseconds, so every comparison of the code is exact integer    *)
(* arithmetic here.                                                        *)
(***************************************************************************)
EXTENDS Integers, Sequences, FiniteSets, TLC

\* ------------------------------------------------------------------ bounds
\* The longest byte stream the framer specification ingests.
MaxStream == 10
\* The most units the video socket delivers in the broadcast specification.
MaxVideoUnits == 5
\* The most clock advances in the gesture specification.
MaxTicks == 2
\* The most chat requests viewers send in the chat specification.
MaxTurns == 2
\* The most new_session messages viewers send in the chat specification.
MaxClears == 1
\* The most steps the agent emits, over all turns, in the steps specification.
MaxAgentSteps == 2
\* The most execute_task calls made in the phone specification.
MaxCalls == 2

\* ------------------------------------------------------ program constants
\* SWIPE_DISTANCE_THRESHOLD = 0.03, in thousandths of the screen.
SWIPE_DISTANCE_THRESHOLD == 30
\* SWIPE_VELOCITY_THRESHOLD = 0.3 normalized units per second, in tenths.
SWIPE_VELOCITY_THRESHOLD == 3
\* SWIPE_MAX_TAP_DURATION = 0.4 s, in milliseconds.
SWIPE_MAX_TAP_DURATION == 400
\* TOUCH_TIMEOUT = 5.0 s, in milliseconds.
TOUCH_TIMEOUT == 5000
\* The fallback of _query_physical_screen_size.
FallbackPhysical == <<1080, 2340>>

\* ------------------------------------------------------------- byte strings
\* The bytes the framer specification draws chunks from: the two bytes a
\* start code is made of, and one byte that is neither (0x67, an SPS header).
FramerBytes == {0, 1, 103}

\* The viewers (WebSocket connections) that may connect.
Viewers == {"v1", "v2"}

\* The viewers whose connection may drop in the broadcast specification: one
\* viewer leaves at any moment while the other stays.
Droppable == {"v2"}

\* The physical screen size the device reports to "wm size".
DevicePhysical == <<1440, 3120>>

\* The positions viewers touch (thousandths of the screen) and the amounts
\* by which the clock advances between messages (milliseconds).
TouchPoints ==
    {<<100, 100>>, <<900, 100>>, <<500, 500>>, <<520, 500>>, <<500, 600>>}
TouchActions == {"down", "move", "up"}
TickSteps == {50, 400, 5000}

\* Units of the video stream: a 4-byte start code and the NAL header byte
\* (0x67 SPS, 0x68 PPS, 0x65 IDR slice, 0x41 non-IDR slice).
SpsUnit == <<0, 0, 0, 1, 103>>
PpsUnit == <<0, 0, 0, 1, 104>>
IdrUnit == <<0, 0, 0, 1, 101>>
DeltaUnit == <<0, 0, 0, 1, 65>>

\* Other units of the same types (0x27 SPS, 0x28 PPS, 0x25 IDR slice).
SpsAlt == <<0, 0, 0, 1, 39>>
PpsAlt == <<0, 0, 0, 1, 40>>
IdrAlt == <<0, 0, 0, 1, 37>>

\* What one recv of the video socket may return in the cache specification:
\* a pair of parameter sets, a keyframe or a slice.
CacheChunks == {SpsUnit \o PpsUnit, SpsAlt \o PpsAlt, IdrUnit, IdrAlt, DeltaUnit}

\* The viewers that connect in the cache specification.
CacheViewers == {"v1"}

\* What one recv of the video socket may return in the broadcast
\* specification: the stream head, a single slice, or two slices at once.
VideoChunks ==
    {SpsUnit \o PpsUnit \o IdrUnit, DeltaUnit, DeltaUnit \o DeltaUnit}

Min(a, b) == IF a < b THEN a ELSE b

\* Python's buf[i:i+n] for a 0-based i: clipped at the end of buf.
Slice(buf, i, n) == SubSeq(buf, i + 1, Min(i + n, Len(buf)))

\* Python's buf[i:] for a 0-based i.
SliceFrom(buf, i) == SubSeq(buf, i + 1, Len(buf))

\* Every sequence over S of length 1..n.
SeqsUpTo(S, n) == UNION {[1..k -> S] : k \in 1..n}

RECURSIVE Concat(_)
Concat(units) == IF units = <<>> THEN <<>> ELSE Head(units) \o Concat(Tail(units))

\* ------------------------------------------------------------------- state
VARIABLES
    alive,          \* self.alive
    device_info,    \* self.device_info is set (TRUE) or None (FALSE)
    clients,        \* self.clients: the viewers in the fan-out set
    touch_states,   \* self._touch_states: viewer -> TouchState, where present
    physical,       \* <<self._physical_width, self._physical_height>>
    queries,        \* history: the number of "wm size" queries made
    sps,            \* self._sps (<<>> for None)
    pps,            \* self._pps (<<>> for None)
    last_keyframe,  \* self._last_keyframe (<<>> for None)
    nal_buffer,     \* self._nal_buffer: bytes ingested and not yet yielded
    nal_units,      \* _video_stream_loop: the units of the batch still to process
    nal_unit,       \* _video_stream_loop: the unit being processed
    vpc,            \* _video_stream_loop: "off", "recv" (the top of the while
                    \* loop), "gather", "sleep_nodata", "sleep_error" or "ended"
    pending,        \* the viewers whose send of the current unit has not run yet
    results,        \* the viewers whose send of the current unit raised
    hpc,            \* _handle_client per viewer: where the handler is
    conn,           \* per viewer: its connection is "open" or "closed"
    now,            \* the clock, time(), in milliseconds
    shell_out,      \* the device commands the last handled message issued
    gesture,        \* history: what the last handled message measured, if it
                    \* resolved a down/up pair
    wire,           \* history: per viewer, the frames sent to it, in order
    joined_at,      \* history: per viewer, the units processed before it joined
    failed_at,      \* history: per viewer, the first unit whose send to it failed
    ticks,          \* history: the number of clock advances
    ingested,       \* history: every byte ingested so far
    yielded,        \* history: every unit yielded so far, in order
    held,           \* history: the recorded pointer-down the last handled touch
                    \* message found, if any: whose it was and how old
    exit_cause,     \* history: per viewer, why its handler terminated
    stopped,        \* stop() has run
    handshake,      \* history: what start() met when it connected
    chat_turns,     \* the _handle_chat_message tasks created, in order
    chat_cancelled, \* self._chat_cancelled is set
    chat_lock,      \* self._chat_lock: the turn that holds it, or 0
    executor_queue, \* self._executor: the invocations submitted and not started
    sdk_session,    \* agent._sdk_session_ids[thread]: the conversation to resume, or 0
    clears,         \* history: the number of new_session messages handled
    sessions,       \* PhoneExecutor.sessions: session id -> stored state
    call,           \* the execute_task call in progress, or NoCall
    task_result,    \* the PhoneTaskResult the last call returned, or NoResult,
                    \* with the history of the last step
    issued,         \* the number of session ids uuid4 has produced so far
    calls,          \* history: the number of execute_task calls made
    loop_busy       \* the synchronous call the event-loop thread is inside, and
                    \* the viewer whose message made it, or Idle

bridgeVars == <<alive, device_info>>
cacheVars  == <<sps, pps, last_keyframe>>
framerVars == <<nal_buffer, ingested, yielded>>
loopVars   == <<nal_units, nal_unit, vpc, pending, results, failed_at>>
viewerVars == <<clients, hpc, conn, wire, joined_at, exit_cause>>
touchVars  == <<touch_states, physical, queries, now, ticks, shell_out, gesture, held>>
startVars  == <<stopped, handshake>>
chatVars   == <<chat_turns, chat_cancelled, chat_lock, executor_queue, sdk_session, clears>>
phoneVars  == <<sessions, call, task_result, issued, calls>>
threadVars == <<loop_busy>>

vars == <<bridgeVars, threadVars, cacheVars, framerVars, loopVars, viewerVars, touchVars,
          startVars, chatVars, phoneVars>>

\* ------------------------------------------------------------------ framer
\* The scan loop of _extract_nal_units from 0-based position i: the list of
\* (position, length) of the start codes it finds.
ScanBound(buf) == Len(buf) - 3

RECURSIVE ScanStartCodes(_, _, _)
ScanStartCodes(buf, i, acc) ==
    IF ~(i < ScanBound(buf)) THEN acc
    ELSE IF Slice(buf, i, 4) = <<0, 0, 0, 1>>
         THEN ScanStartCodes(buf, i + 4, Append(acc, <<i, 4>>))
    ELSE IF Slice(buf, i, 3) = <<0, 0, 1>>
         THEN ScanStartCodes(buf, i + 3, Append(acc, <<i, 3>>))
    ELSE ScanStartCodes(buf, i + 1, acc)

\* Where the kept tail starts: the position of the last start code found.
LastStartPosMutant(start_positions) ==
    start_positions[Len(start_positions)][1] + start_positions[Len(start_positions)][2]
LastStartPos(start_positions) == start_positions[Len(start_positions)][1]

\* _extract_nal_units on buffer buf: the units returned and the buffer kept.
ExtractNalUnits(buf) ==
    LET start_positions == ScanStartCodes(buf, 0, <<>>)
        n == Len(start_positions)
    IN  IF n < 2
        THEN [units |-> <<>>, rest |-> buf]
        ELSE [units |-> [idx \in 1..(n - 1) |->
                            SubSeq(buf, start_positions[idx][1] + 1,
                                        start_positions[idx + 1][1])],
              rest  |-> SliceFrom(buf, LastStartPos(start_positions))]

\* _get_nal_type: the type of a single unit that carries its start code.
GetNalType(unit) ==
    IF Len(unit) < 5 THEN -1
    ELSE IF Slice(unit, 0, 4) = <<0, 0, 0, 1>> THEN unit[5] % 32
    ELSE IF Slice(unit, 0, 3) = <<0, 0, 1>> THEN unit[4] % 32
    ELSE -1

IsSps(unit) == GetNalType(unit) = 7
IsPps(unit) == GetNalType(unit) = 8
IsKeyframe(unit) == GetNalType(unit) = 5

\* Lines 751-755 of _video_stream_loop: extend the buffer by the bytes read,
\* then extract. IngestUnits(d) is the list the extraction returns.
IngestUnits(d) == ExtractNalUnits(nal_buffer \o d).units

Ingest(d) ==
    LET r == ExtractNalUnits(nal_buffer \o d)
    IN  /\ nal_buffer' = r.rest
        /\ ingested' = ingested \o d
        /\ yielded' = yielded \o r.units

\* ------------------------------------------------------------------- Init
\* No down/up pair was resolved.
NoGesture == [kind |-> "none", down |-> <<>>, up |-> <<>>, dt |-> 0]

\* The last handled touch message found no pointer-down recorded.
NoHeld == [from |-> "none", elapsed |-> 0]

\* start() has not connected yet.
NoHandshake == [fails |-> -1, dummy |-> <<>>]

\* No execute_task call is in progress; no call has returned yet.
NoCall == [active |-> FALSE]
NoResult == [status |-> "none"]

\* The event-loop thread is inside no synchronous call.
Idle == [by |-> "none", call |-> "none"]

\* A unit of a batch with its index in parse order (history), and the value of
\* the loop variable before the first unit.
Tagged(unit, n) == [unit |-> unit, n |-> n]
NoUnit == Tagged(<<>>, 0)

\* The bridge as __init__ leaves it, with no viewer connected yet.
Init ==
    /\ alive = FALSE
    /\ device_info = FALSE
    /\ clients = {}
    /\ touch_states = [v \in {} |-> 0]
    /\ physical = <<0, 0>>
    /\ queries = 0
    /\ sps = <<>>
    /\ pps = <<>>
    /\ last_keyframe = <<>>
    /\ nal_buffer = <<>>
    /\ nal_units = <<>>
    /\ nal_unit = NoUnit
    /\ vpc = "off"
    /\ pending = {}
    /\ results = {}
    /\ hpc = [v \in Viewers |-> "absent"]
    /\ conn = [v \in Viewers |-> "open"]
    /\ now = 0
    /\ shell_out = <<>>
    /\ gesture = NoGesture
    /\ wire = [v \in Viewers |-> <<>>]
    /\ joined_at = [v \in Viewers |-> 0]
    /\ failed_at = [v \in Viewers |-> 0]
    /\ ticks = 0
    /\ ingested = <<>>
    /\ yielded = <<>>
    /\ held = NoHeld
    /\ exit_cause = [v \in Viewers |-> "none"]
    /\ stopped = FALSE
    /\ handshake = NoHandshake
    /\ chat_turns = <<>>
    /\ chat_cancelled = FALSE
    /\ chat_lock = 0
    /\ executor_queue = <<>>
    /\ sdk_session = 0
    /\ clears = 0
    /\ sessions = [id \in {} |-> 0]
    /\ call = NoCall
    /\ task_result = NoResult
    /\ issued = 0
    /\ calls = 0
    /\ loop_busy = Idle

\* ------------------------------------------------------------------ start
\* The connection attempts of _connect_to_server: range(30).
CONNECT_ATTEMPTS == 30

\* The liveness byte the capture server sends first.
DUMMY_BYTE == <<0>>

\* _connect_to_server when the first fails connection attempts raise AdbError
\* and the first recv(1) of the video socket returns dummy (not read when
\* every attempt failed): it returns ("ok") or raises ConnectionError.
ConnectToServerMutant(fails, dummy) ==
    IF fails >= CONNECT_ATTEMPTS THEN "error" ELSE "ok"
ConnectToServer(fails, dummy) ==
    IF fails >= CONNECT_ATTEMPTS THEN "error"
    ELSE IF dummy # DUMMY_BYTE THEN "error"
    ELSE "ok"

\* start() up to its first await, or to its end when connecting fails. When
\* the connection is made device_info is set, the bridge is alive, viewers
\* are served and the video loop runs; when it is not the exception leaves
\* start() through its finally clause, which calls stop().
StartSession(fails, dummy) ==
    /\ ~alive
    /\ vpc = "off"
    /\ ~stopped
    /\ handshake' = [fails |-> fails, dummy |-> dummy]
    /\ IF ConnectToServer(fails, dummy) = "ok"
       THEN /\ alive' = TRUE
            /\ device_info' = TRUE
            /\ vpc' = "recv"
            /\ UNCHANGED stopped
       ELSE /\ alive' = FALSE
            /\ stopped' = TRUE
            /\ UNCHANGED <<device_info, vpc>>
    /\ UNCHANGED <<cacheVars, framerVars, viewerVars, touchVars, chatVars, phoneVars,
                   threadVars, nal_units, nal_unit, pending, results, failed_at>>

\* start() when the first attempt connects and the liveness byte is read.
Start == StartSession(0, DUMMY_BYTE)

\* ---------------------------------------------------------- viewer handler
Frame(kind, unit, n) == [kind |-> kind, unit |-> unit, n |-> n]

\* The number of units the video loop has taken from its batches so far.
Processed == Len(yielded) - Len(nal_units)

\* The finally block of _handle_client.
CleanupMutant(v) ==
    /\ clients' = clients \ {v}
    /\ touch_states' = touch_states
    /\ hpc' = [hpc EXCEPT ![v] = "closed"]
Cleanup(v) ==
    /\ clients' = clients \ {v}
    /\ touch_states' = [w \in (DOMAIN touch_states) \ {v} |-> touch_states[w]]
    /\ hpc' = [hpc EXCEPT ![v] = "closed"]

\* The handler of v terminates for the cause given.
Exits(v, cause) == exit_cause' = [exit_cause EXCEPT ![v] = cause]

\* The catch-up stages still ahead of a handler, in the order of the code.
StagesAfter(pc) ==
    CASE pc = "sent_info" -> <<"sps", "pps", "keyframe">>
      [] pc = "sent_sps"  -> <<"pps", "keyframe">>
      [] pc = "sent_pps"  -> <<"keyframe">>
      [] OTHER            -> <<>>

Cached(stage) ==
    CASE stage = "sps" -> sps
      [] stage = "pps" -> pps
      [] OTHER         -> last_keyframe

\* The first stage whose cached unit is present (Python truthiness), if any.
RECURSIVE FirstCached(_)
FirstCached(stages) ==
    IF stages = <<>> THEN "none"
    ELSE IF Cached(Head(stages)) # <<>> THEN Head(stages)
    ELSE FirstCached(Tail(stages))

AfterStage(stage) ==
    CASE stage = "sps" -> "sent_sps"
      [] stage = "pps" -> "sent_pps"
      [] OTHER         -> "recv"

\* The handler of v runs from the stages given up to its next await: the send
\* of the first cached unit, or the wait for the viewer's next message.
RunCatchup(v, stages, cl) ==
    LET stage == FirstCached(stages)
    IN  IF stage = "none"
        THEN /\ hpc' = [hpc EXCEPT ![v] = "recv"]
             /\ clients' = cl
             /\ UNCHANGED <<wire, touch_states, exit_cause>>
        ELSE IF conn[v] = "open"
        THEN /\ wire' = [wire EXCEPT ![v] = Append(@, Frame("catchup", Cached(stage), 0))]
             /\ hpc' = [hpc EXCEPT ![v] = AfterStage(stage)]
             /\ clients' = cl
             /\ UNCHANGED <<touch_states, exit_cause>>
        ELSE /\ Cleanup(v)
             /\ Exits(v, "closed")
             /\ UNCHANGED wire

\* _handle_client up to its first await: the viewer is added to the fan-out
\* set and device_info is sent.
Join(v) ==
    /\ alive
    /\ vpc \in {"recv", "gather", "sleep_nodata", "sleep_error"}
    /\ hpc[v] = "absent"
    /\ joined_at' = [joined_at EXCEPT ![v] = Processed]
    /\ IF device_info
       THEN IF conn[v] = "open"
            THEN /\ wire' = [wire EXCEPT ![v] = Append(@, Frame("info", <<>>, 0))]
                 /\ hpc' = [hpc EXCEPT ![v] = "sent_info"]
                 /\ clients' = clients \cup {v}
                 /\ UNCHANGED <<touch_states, exit_cause>>
            ELSE /\ Cleanup(v)
                 /\ Exits(v, "closed")
                 /\ UNCHANGED wire
       ELSE RunCatchup(v, StagesAfter("sent_info"), clients \cup {v})
    /\ UNCHANGED <<bridgeVars, threadVars, startVars, phoneVars, chatVars, cacheVars, framerVars, loopVars, conn,
                   physical, queries, now, ticks, shell_out, gesture, held>>

\* The handler resumes after a catch-up send.
Catchup(v) ==
    /\ hpc[v] \in {"sent_info", "sent_sps", "sent_pps"}
    /\ RunCatchup(v, StagesAfter(hpc[v]), clients)
    /\ UNCHANGED <<bridgeVars, threadVars, startVars, phoneVars, chatVars, cacheVars, framerVars, loopVars, conn, joined_at,
                   physical, queries, now, ticks, shell_out, gesture, held>>

\* The viewer's connection closes (the peer leaves, or the network drops).
PeerClose(v) ==
    /\ hpc[v] \notin {"absent", "closed"}
    /\ conn[v] = "open"
    /\ conn' = [conn EXCEPT ![v] = "closed"]
    /\ UNCHANGED <<bridgeVars, threadVars, startVars, phoneVars, chatVars, cacheVars, framerVars, loopVars, touchVars,
                   clients, hpc, wire, joined_at, exit_cause>>

\* The message loop of the handler ends on a closed connection.
HandlerExit(v) ==
    /\ hpc[v] = "recv"
    /\ conn[v] = "closed"
    /\ Cleanup(v)
    /\ Exits(v, "closed")
    /\ UNCHANGED <<bridgeVars, threadVars, startVars, phoneVars, chatVars, cacheVars, framerVars, loopVars, conn, wire, joined_at,
                   physical, queries, now, ticks, shell_out, gesture, held>>

\* -------------------------------------------------------------- video loop
\* Lines 767-779: a parameter set or keyframe replaces the cached one.
CacheAfterMutant(c, unit) ==
    [sps |-> IF IsSps(unit) THEN unit ELSE c.sps,
     pps |-> IF IsPps(unit) THEN unit ELSE c.pps,
     kf  |-> IF IsKeyframe(unit) /\ c.kf = <<>> THEN unit ELSE c.kf]
CacheAfter(c, unit) ==
    [sps |-> IF IsSps(unit) THEN unit ELSE c.sps,
     pps |-> IF IsPps(unit) THEN unit ELSE c.pps,
     kf  |-> IF IsKeyframe(unit) THEN unit ELSE c.kf]

RECURSIVE CacheFold(_, _)
CacheFold(c, units) ==
    IF units = <<>> THEN c ELSE CacheFold(CacheAfter(c, Head(units)), Tail(units))

Cache == [sps |-> sps, pps |-> pps, kf |-> last_keyframe]

SetCache(c) ==
    /\ sps' = c.sps
    /\ pps' = c.pps
    /\ last_keyframe' = c.kf

\* The units of a batch tagged with their indices in parse order, the first
\* being unit number first.
TagBatch(units, first) == [k \in 1..Len(units) |-> Tagged(units[k], first + k - 1)]

\* The order in which the for loop takes the units of a batch.
Reversed(units) == [k \in 1..Len(units) |-> units[Len(units) + 1 - k]]
BatchOrderMutant(units) == Reversed(units)
BatchOrder(units) == units

RECURSIVE Untagged(_)
Untagged(units) ==
    IF units = <<>> THEN <<>> ELSE <<Head(units).unit>> \o Untagged(Tail(units))

\* The for loop over the batch, from its next unit up to the next await: with
\* no viewer connected every unit is cached and the loop reads again;
\* otherwise the next unit is cached and one send per viewer of the fan-out
\* set is started, which the loop awaits.
RunBatch(units) ==
    IF units = <<>> \/ clients = {}
    THEN /\ SetCache(CacheFold(Cache, Untagged(units)))
         /\ nal_units' = <<>>
         /\ nal_unit' = IF units = <<>> THEN nal_unit ELSE units[Len(units)]
         /\ pending' = {}
         /\ results' = {}
         /\ vpc' = "recv"
    ELSE /\ SetCache(CacheAfter(Cache, Head(units).unit))
         /\ nal_units' = Tail(units)
         /\ nal_unit' = Head(units)
         /\ pending' = clients
         /\ results' = {}
         /\ vpc' = "gather"

\* One pass of the while loop: recv returns bytes (one of chunks), which are
\* framed, and the batch is processed up to the first await.
VideoRecvFrom(chunks) ==
    /\ alive
    /\ vpc = "recv"
    /\ \E d \in chunks :
           /\ Len(ingested) + Len(d) <= MaxVideoUnits * Len(DeltaUnit)
           /\ Ingest(d)
           /\ RunBatch(BatchOrder(TagBatch(IngestUnits(d), Len(yielded) + 1)))
    /\ UNCHANGED <<bridgeVars, threadVars, startVars, phoneVars, chatVars, viewerVars, touchVars, failed_at>>

VideoRecv == VideoRecvFrom(VideoChunks)

\* recv returns no bytes: the stream has ended, the loop breaks, start()
\* leaves the server context (closing the viewers' connections) and stops.
VideoEnd ==
    /\ alive
    /\ vpc = "recv"
    /\ vpc' = "ended"
    /\ alive' = FALSE
    /\ stopped' = TRUE
    /\ conn' = [v \in Viewers |-> IF hpc[v] \in {"absent", "closed"} THEN conn[v] ELSE "closed"]
    /\ UNCHANGED <<device_info, handshake, chatVars, phoneVars, threadVars, cacheVars,
                   framerVars, touchVars,
                   nal_units, nal_unit, pending, results, failed_at,
                   clients, hpc, wire, joined_at, exit_cause>>

\* Lines 738-741: recv has no data yet (BlockingIOError); the loop sleeps.
VideoNoData ==
    /\ alive
    /\ vpc = "recv"
    /\ vpc' = "sleep_nodata"
    /\ UNCHANGED <<bridgeVars, threadVars, startVars, phoneVars, chatVars, cacheVars, framerVars,
                   viewerVars, touchVars, nal_units, nal_unit, pending, results, failed_at>>

\* Where the loop goes when an iteration raises: line 789 catches Exception,
\* logs it and sleeps.
AfterRaiseMutant == "ended"
AfterRaise == "sleep_error"

\* Lines 742-746 and 789-791: recv raises an OSError other than EAGAIN (the
\* connection was reset, say); the inner clause re-raises it and the outer
\* clause catches it.
VideoRaise ==
    /\ alive
    /\ vpc = "recv"
    /\ vpc' = AfterRaise
    /\ UNCHANGED <<bridgeVars, threadVars, startVars, phoneVars, chatVars, cacheVars, framerVars,
                   viewerVars, touchVars, nal_units, nal_unit, pending, results, failed_at>>

\* The sleep of line 741 or 791 is over: the loop is back at its top.
VideoWake ==
    /\ vpc \in {"sleep_nodata", "sleep_error"}
    /\ vpc' = "recv"
    /\ UNCHANGED <<bridgeVars, threadVars, startVars, phoneVars, chatVars, cacheVars, framerVars,
                   viewerVars, touchVars, nal_units, nal_unit, pending, results, failed_at>>

\* stop() is called while the loop is running (lines 823-826).
Stop ==
    /\ alive
    /\ vpc \notin {"off", "ended"}
    /\ alive' = FALSE
    /\ stopped' = TRUE
    /\ UNCHANGED <<device_info, handshake, phoneVars, threadVars, chatVars, cacheVars,
                   framerVars, viewerVars, touchVars, loopVars>>

\* Line 732: the while condition finds alive false; the loop ends and
\* start() leaves the server context.
VideoStopped ==
    /\ ~alive
    /\ vpc = "recv"
    /\ vpc' = "ended"
    /\ conn' = [v \in Viewers |-> IF hpc[v] \in {"absent", "closed"} THEN conn[v] ELSE "closed"]
    /\ UNCHANGED <<bridgeVars, threadVars, startVars, phoneVars, chatVars, cacheVars, framerVars, touchVars,
                   nal_units, nal_unit, pending, results, failed_at,
                   clients, hpc, wire, joined_at, exit_cause>>

\* One of the sends gathered for the current unit runs: client.send(nal_unit).
LiveSend(v) ==
    /\ vpc = "gather"
    /\ v \in pending
    /\ pending' = pending \ {v}
    /\ IF conn[v] = "open"
       THEN /\ wire' = [wire EXCEPT ![v] = Append(@, Frame("live", nal_unit.unit, nal_unit.n))]
            /\ UNCHANGED <<results, failed_at>>
       ELSE /\ results' = results \cup {v}
            /\ failed_at' = [failed_at EXCEPT ![v] = IF @ = 0 THEN nal_unit.n ELSE @]
            /\ UNCHANGED wire
    /\ UNCHANGED <<bridgeVars, threadVars, startVars, phoneVars, chatVars, cacheVars, framerVars, touchVars, nal_units, nal_unit,
                   vpc, clients, hpc, conn, joined_at, exit_cause>>

\* gather(..., return_exceptions=True): a failed send is a result, not raised.
GatherRaisesMutant(failed) == failed # {}
GatherRaises(failed) == FALSE

\* Every gathered send has run: the loop resumes, logs the failures and goes
\* on with the batch. (An exception would end the pass: the except clause
\* sleeps and the while loop reads again.)
GatherDone ==
    /\ vpc = "gather"
    /\ pending = {}
    /\ IF GatherRaises(results)
       THEN /\ nal_units' = <<>>
            /\ results' = {}
            /\ vpc' = "recv"
            /\ UNCHANGED <<pending, nal_unit, cacheVars>>
       ELSE RunBatch(nal_units)
    /\ UNCHANGED <<bridgeVars, threadVars, startVars, phoneVars, chatVars, framerVars, viewerVars, touchVars, failed_at>>

\* ---------------------------------------------------------------- gestures
\* TouchState(): no pointer-down recorded.
NewTouchState == [start_pos |-> <<>>, start_time |-> 0]

\* Lines 557-559: a pointer-down is recorded and is older than TOUCH_TIMEOUT
\* at time t.
IsStaleMutant(ts, t) == FALSE
IsStale(ts, t) ==
    /\ ts.start_pos # <<>>
    /\ t - ts.start_time > TOUCH_TIMEOUT

\* velocity > SWIPE_VELOCITY_THRESHOLD, where velocity is distance / duration
\* if duration > 0 else 0. d2 is the squared distance in thousandths, dt the
\* duration in milliseconds: distance / duration > T / 10 exactly when
\* (10 * distance)^2 > (T * duration)^2.
VelocityExceeds(d2, dt) ==
    /\ dt > 0
    /\ 10 * 10 * d2 > SWIPE_VELOCITY_THRESHOLD * SWIPE_VELOCITY_THRESHOLD * dt * dt

\* Lines 604-607: is_swipe.
IsSwipeMutant(d2, dt) ==
    /\ VelocityExceeds(d2, dt)
    /\ d2 > SWIPE_DISTANCE_THRESHOLD * SWIPE_DISTANCE_THRESHOLD
IsSwipe(d2, dt) ==
    \/ VelocityExceeds(d2, dt)
    \/ /\ d2 > SWIPE_DISTANCE_THRESHOLD * SWIPE_DISTANCE_THRESHOLD
       /\ dt > SWIPE_MAX_TAP_DURATION

Dist2(p, q) == (q[1] - p[1]) * (q[1] - p[1]) + (q[2] - p[2]) * (q[2] - p[2])

\* int(x * self._physical_width) for a normalized x in thousandths: int()
\* truncates toward zero.
ToPixelsMutant(x, size) == (x * size + 999) \div 1000
ToPixels(x, size) ==
    IF x * size >= 0 THEN (x * size) \div 1000 ELSE -((-(x * size)) \div 1000)

ShellCmd(cmd, args) == [cmd |-> cmd, args |-> args]

\* The synchronous calls a message handler makes on the event-loop thread:
\* device.shell with an input tap or swipe, an input keyevent or wm size
\* (none of them awaited or handed to the executor), and
\* agent.interrupt_sync(), which waits on future.result(timeout=5).
BlockingCalls == {"input", "keyevent", "wm size", "interrupt"}

CallOf(cmd) == IF cmd.cmd \in {"tap", "swipe"} THEN "input" ELSE cmd.cmd

\* The handler of a message of viewer v, which makes the synchronous calls
\* cmds, runs to its end: in one step, or from inside the first of the calls.
Returns(v, cmds) ==
    /\ \/ loop_busy = Idle
       \/ /\ loop_busy.by = v
          /\ cmds # <<>>
          /\ CallOf(cmds[1]) = loop_busy.call
    /\ loop_busy' = Idle

\* Line 545: the physical size is queried when no width is cached.
NeedsQueryMutant(width) == TRUE
NeedsQuery(width) == width = 0

\* Lines 550-552: the pointer state is looked up under the client itself.
TouchKeyMutant(v) == "v1"
TouchKey(v) == v

\* _send_touch(client, action, x, y), the handler of a touch message, which
\* runs without an await. phys is what the size query returns if it is made.
SendTouch(v, action, x, y, phys) ==
    /\ hpc[v] = "recv"
    /\ UNCHANGED <<bridgeVars, startVars, phoneVars, chatVars, cacheVars, framerVars, loopVars, viewerVars, now, ticks>>
    /\ IF ~device_info \/ ~(0 <= x /\ x <= 1000 /\ 0 <= y /\ y <= 1000)
       THEN /\ shell_out' = <<>>
            /\ gesture' = NoGesture
            /\ held' = NoHeld
            /\ UNCHANGED <<touch_states, physical, queries>>
       ELSE
       LET query == NeedsQuery(physical[1])
           size  == IF query THEN phys ELSE physical
           asked == IF query THEN <<ShellCmd("wm size", <<>>)>> ELSE <<>>
           key   == TouchKey(v)
           ts    == IF key \in DOMAIN touch_states THEN touch_states[key] ELSE NewTouchState
           Put(t) == [w \in (DOMAIN touch_states) \cup {key} |->
                         IF w = key THEN t ELSE touch_states[w]]
       IN  /\ physical' = size
           /\ queries' = IF query THEN queries + 1 ELSE queries
           /\ held' = IF ts.start_pos = <<>> THEN NoHeld
                      ELSE [from |-> v, elapsed |-> now - ts.start_time]
           /\ IF IsStale(ts, now)
              THEN \* a stale pointer-down is dropped and the event ignored
                   /\ touch_states' = Put([ts EXCEPT !.start_pos = <<>>])
                   /\ shell_out' = asked
                   /\ gesture' = NoGesture
              ELSE IF action = "down"
              THEN /\ touch_states' = Put([start_pos |-> <<x, y>>, start_time |-> now])
                   /\ shell_out' = asked
                   /\ gesture' = NoGesture
              ELSE IF action = "up" /\ ts.start_pos # <<>>
              THEN LET d2 == Dist2(ts.start_pos, <<x, y>>)
                       dt == now - ts.start_time
                       x1 == ToPixels(ts.start_pos[1], size[1])
                       y1 == ToPixels(ts.start_pos[2], size[2])
                       x2 == ToPixels(x, size[1])
                       y2 == ToPixels(y, size[2])
                   IN  /\ touch_states' = Put([ts EXCEPT !.start_pos = <<>>])
                       /\ IF IsSwipe(d2, dt)
                          THEN /\ shell_out' = Append(asked,
                                       ShellCmd("swipe", <<x1, y1, x2, y2, 200>>))
                               /\ gesture' = [kind |-> "swipe", down |-> ts.start_pos,
                                              up |-> <<x, y>>, dt |-> dt]
                          ELSE /\ shell_out' = Append(asked, ShellCmd("tap", <<x2, y2>>))
                               /\ gesture' = [kind |-> "tap", down |-> ts.start_pos,
                                              up |-> <<x, y>>, dt |-> dt]
              ELSE \* a move, or an up with no pointer-down recorded
                   /\ touch_states' = Put(ts)
                   /\ shell_out' = asked
                   /\ gesture' = NoGesture
    /\ Returns(v, shell_out')

\* What _query_physical_screen_size may return when it is called: the size
\* the device reports, or the fallback when the query fails. (When the size
\* is cached no query is made.)
QueryResults ==
    IF physical[1] = 0 THEN {DevicePhysical, FallbackPhysical} ELSE {physical}

\* A viewer in its message loop sends a touch message.
TouchMessage ==
    \E v \in Viewers, action \in TouchActions, p \in TouchPoints, phys \in QueryResults :
        SendTouch(v, action, p[1], p[2], phys)

\* Time passes between two messages.
Tick(step) ==
    /\ ticks < MaxTicks
    /\ now' = now + step
    /\ ticks' = ticks + 1
    /\ UNCHANGED <<bridgeVars, threadVars, startVars, phoneVars, chatVars, cacheVars, framerVars, loopVars, viewerVars,
                   touch_states, physical, queries, shell_out, gesture, held>>

\* The handler of a message of viewer v enters the synchronous call what on
\* the event-loop thread: until the call returns no other coroutine runs.
LoopCall(v, what) ==
    /\ hpc[v] = "recv"
    /\ loop_busy = Idle
    /\ CASE what = "wm size" -> device_info /\ NeedsQuery(physical[1])
         [] what = "input"   -> /\ device_info /\ ~NeedsQuery(physical[1])
                                /\ v \in DOMAIN touch_states
                                /\ touch_states[v].start_pos # <<>>
                                /\ ~IsStale(touch_states[v], now)
         [] OTHER            -> TRUE
    /\ loop_busy' = [by |-> v, call |-> what]
    /\ UNCHANGED <<bridgeVars, startVars, phoneVars, chatVars, cacheVars, framerVars,
                   loopVars, viewerVars, touchVars>>

\* A step of a coroutine other than the one inside a synchronous call: it
\* runs only when the event-loop thread is free.
OnLoop == loop_busy = Idle

\* ---------------------------------------------------------- control router
\* Inbound messages that are malformed or unrecognized: text that is not
\* JSON, JSON that is not an object, an object of unknown type, a touch or key
\* message with a required field missing, and a touch message whose x is not
\* a number.
MalformedKinds == {"not_json", "not_object", "unknown_type", "missing_field", "wrong_type"}

\* Whether handling the message raises an exception that the except clause
\* of _handle_control_message (JSONDecodeError, KeyError) does not catch:
\* data.get on a value that is not a dict raises AttributeError, and the
\* format {data['x']:.3f} of line 322 raises on a value that is not a number.
Escapes(kind) == kind \in {"not_object", "wrong_type"}

\* A viewer in its message loop sends a malformed message. It is logged and
\* dropped, or the exception leaves the message loop of _handle_client: the
\* finally block runs and the server closes the connection.
MalformedMessage(v, kind) ==
    /\ hpc[v] = "recv"
    /\ conn[v] = "open"
    /\ IF Escapes(kind)
       THEN /\ Cleanup(v)
            /\ Exits(v, kind)
            /\ conn' = [conn EXCEPT ![v] = "closed"]
       ELSE UNCHANGED <<clients, touch_states, hpc, exit_cause, conn>>
    /\ UNCHANGED <<bridgeVars, threadVars, startVars, phoneVars, chatVars, cacheVars, framerVars, loopVars,
                   wire, joined_at, physical, queries, now, ticks, shell_out, gesture, held>>

\* The positions viewers touch in the router specification.
RouterPoints == {<<500, 500>>, <<520, 500>>}

\* A viewer in its message loop sends a touch message.
RouterTouch ==
    \E v \in Viewers, action \in TouchActions, p \in RouterPoints, phys \in QueryResults :
        SendTouch(v, action, p[1], p[2], phys)

\* -------------------------------------------------------------------- keys
\* The message types routed to _send_key, and the keycodes of key messages
\* (volume up, enter, back).
KeyTypes == {"back", "home", "recents", "key"}
Keycodes == {24, 66, 4}

\* Lines 329-343: the keycode passed to _send_key.
KeycodeOfMutant(type, keycode) ==
    CASE type = "back"    -> 4
      [] type = "home"    -> 3
      [] type = "recents" -> 82
      [] OTHER            -> keycode
KeycodeOf(type, keycode) ==
    CASE type = "back"    -> 4
      [] type = "home"    -> 3
      [] type = "recents" -> 187
      [] OTHER            -> keycode

\* device.shell("input keyevent <keycode>"); failed when the call raised.
KeyCmd(keycode, failed) == [cmd |-> "keyevent", args |-> <<keycode>>, failed |-> failed]

\* A viewer in its message loop sends a back, home, recents or key message:
\* _send_key issues the key event and swallows a failure of the command.
KeyMessage(v, type, keycode, failed) ==
    /\ hpc[v] = "recv"
    /\ shell_out' = <<KeyCmd(KeycodeOf(type, keycode), failed)>>
    /\ gesture' = NoGesture
    /\ held' = NoHeld
    /\ Returns(v, shell_out')
    /\ UNCHANGED <<bridgeVars, startVars, phoneVars, chatVars, cacheVars, framerVars,
                   loopVars, viewerVars, touch_states, physical, queries, now, ticks>>

\* -------------------------------------------------------------------- chat
\* The texts of chat requests, as sequences of characters: an empty one and
\* a non-empty one.
Hi == <<"h", "i">>
ChatTexts == {<<>>, Hi}

\* The texts of the rejection specification: empty, whitespace only, and
\* with other characters, padded or not.
RejectTexts == {<<>>, <<" ">>, <<" ", "\t">>, <<" ", "h", " ">>, Hi}

\* str.strip(): leading and trailing whitespace removed.
Whitespace == {" ", "\t", "\n", "\r"}
RECURSIVE LStrip(_)
LStrip(text) ==
    IF text = <<>> THEN <<>>
    ELSE IF Head(text) \in Whitespace THEN LStrip(Tail(text))
    ELSE text
RECURSIVE RStrip(_)
RStrip(text) ==
    IF text = <<>> THEN <<>>
    ELSE IF text[Len(text)] \in Whitespace THEN RStrip(SubSeq(text, 1, Len(text) - 1))
    ELSE text
Strip(text) == RStrip(LStrip(text))

\* Line 375: not user_message or not user_message.strip().
IsEmptyMessageMutant(text) == text = <<>>
IsEmptyMessage(text) == text = <<>> \/ Strip(text) = <<>>

\* How an agent invocation may end: with a result, or with an error (raised,
\* or returned as an error result).
AgentOutcomes == {"ok", "error"}

\* A _handle_chat_message task as create_task leaves it. pc is where its
\* handler is ("new", "thinking", "polling", "settling", "finished"); job is
\* its invoke_agent call ("none", "queued" in the executor, "running",
\* "done", "failed", or "cancelled" before it started); terminal is the last
\* event sent to the requester, if it ended the turn; step_queue is the
\* hand-off queue of the turn: the numbers of the steps put and not yet taken,
\* and 0 for the completion marker (None). A handler at "empty" has found the
\* queue empty and not yet looked at the future. History: conv is the
\* conversation the invocation belongs to (the turn that began it), epoch the
\* number of new_session messages handled before it started, settled whether
\* the handler took the cancellation path, emitted the number of steps the
\* agent has emitted in the turn.
NewTurn(v, text) ==
    [from |-> v, text |-> text, pc |-> "new", job |-> "none", terminal |-> "none",
     conv |-> 0, epoch |-> 0, settled |-> FALSE, step_queue |-> <<>>, emitted |-> 0]

Turns == DOMAIN chat_turns

Running == {t \in Turns : chat_turns[t].job = "running"}

\* The turn is in flight: its handler has cleared the flag and has not ended.
InFlight(t) == chat_turns[t].pc \in {"thinking", "polling", "empty", "settling"}

\* websocket.send(event) of a chat handler to the requester of turn t.
SendEvent(t, kind) ==
    wire' = [wire EXCEPT ![chat_turns[t].from] = Append(@, Frame(kind, <<>>, t))]

\* Line 349: a chat message creates the task of a new turn.
ChatMessageMutant(v, text) ==
    /\ hpc[v] = "recv"
    /\ Len(chat_turns) < MaxTurns
    /\ chat_turns' = Append(chat_turns, NewTurn(v, text))
    /\ hpc' = [hpc EXCEPT ![v] = "chat"]
    /\ UNCHANGED <<bridgeVars, threadVars, startVars, phoneVars, cacheVars, framerVars, loopVars,
                   clients, conn, wire, joined_at, exit_cause,
                   touchVars, chat_cancelled, chat_lock, executor_queue, sdk_session,
                   clears>>
ChatMessage(v, text) ==
    /\ hpc[v] = "recv"
    /\ Len(chat_turns) < MaxTurns
    /\ chat_turns' = Append(chat_turns, NewTurn(v, text))
    /\ UNCHANGED <<bridgeVars, threadVars, startVars, phoneVars, cacheVars, framerVars, loopVars, viewerVars,
                   touchVars, chat_cancelled, chat_lock, executor_queue, sdk_session,
                   clears>>

\* Lines 350-356: a cancel message sets the flag and interrupts the agent.
CancelMessage(v) ==
    /\ hpc[v] = "recv"
    /\ chat_cancelled' = TRUE
    /\ Returns(v, <<ShellCmd("interrupt", <<>>)>>)
    /\ UNCHANGED <<bridgeVars, startVars, phoneVars, cacheVars, framerVars, loopVars, viewerVars,
                   touchVars, chat_turns, chat_lock, executor_queue, sdk_session, clears>>

\* Lines 357-366 and clear_session: the saved SDK session id is deleted and
\* session_cleared is sent to the viewer.
NewSessionMessage(v) ==
    /\ hpc[v] = "recv"
    /\ clears < MaxClears
    /\ sdk_session' = 0
    /\ clears' = clears + 1
    /\ wire' = [wire EXCEPT ![v] = Append(@, Frame("session_cleared", <<>>, 0))]
    /\ UNCHANGED <<bridgeVars, threadVars, startVars, phoneVars, cacheVars, framerVars, loopVars, touchVars,
                   clients, hpc, conn, joined_at, exit_cause,
                   chat_turns, chat_cancelled, chat_lock, executor_queue>>

\* Line 383: the flag when a turn has begun: cleared.
FlagAfterBeginMutant == chat_cancelled
FlagAfterBegin == FALSE

\* Lines 374-391: the task starts: an empty text is answered with agent_error;
\* otherwise the cancel flag is cleared and the thinking status is sent.
ChatBegin(t) ==
    /\ t \in Turns
    /\ chat_turns[t].pc = "new"
    /\ IF IsEmptyMessage(chat_turns[t].text)
       THEN /\ SendEvent(t, "agent_error")
            /\ chat_turns' = [chat_turns EXCEPT ![t].pc = "finished",
                                                ![t].terminal = "agent_error"]
            /\ UNCHANGED chat_cancelled
       ELSE /\ chat_cancelled' = FlagAfterBegin
            /\ SendEvent(t, "agent_status")
            /\ chat_turns' = [chat_turns EXCEPT ![t].pc = "thinking"]
    /\ UNCHANGED <<bridgeVars, threadVars, startVars, phoneVars, cacheVars, framerVars, loopVars, touchVars,
                   clients, hpc, conn, joined_at, exit_cause,
                   chat_lock, executor_queue, sdk_session, clears>>

\* Lines 427-449, the top of the streaming loop: with the flag set the
\* handler waits for the invocation to settle, otherwise for a step.
LoopTop == IF chat_cancelled THEN "settling" ELSE "polling"

\* Lines 393-427: the invocation is submitted to the executor and the handler
\* enters its streaming loop.
ChatSubmit(t) ==
    /\ t \in Turns
    /\ chat_turns[t].pc = "thinking"
    /\ executor_queue' = Append(executor_queue, t)
    /\ chat_turns' = [chat_turns EXCEPT ![t].job = "queued", ![t].pc = LoopTop]
    /\ UNCHANGED <<bridgeVars, threadVars, startVars, phoneVars, cacheVars, framerVars, loopVars, viewerVars,
                   touchVars, chat_cancelled, chat_lock, sdk_session, clears>>

\* The executor (max_workers=1) may start the next invocation, which takes
\* the chat lock: its one worker is idle and the lock is free.
MayInvokeMutant(t) == TRUE
MayInvoke(t) ==
    /\ Running = {}
    /\ chat_lock = 0

\* Lines 400-411 and invoke_async line 641: the worker takes the invocation
\* at the head of the queue, acquires the lock and calls the agent, which
\* resumes the saved SDK session if there is one.
WorkerStart(t) ==
    /\ executor_queue # <<>>
    /\ t = Head(executor_queue)
    /\ MayInvoke(t)
    /\ executor_queue' = Tail(executor_queue)
    /\ chat_lock' = t
    /\ chat_turns' = [chat_turns EXCEPT
                         ![t].job = "running",
                         ![t].conv = IF sdk_session # 0 THEN sdk_session ELSE t,
                         ![t].epoch = clears]
    /\ UNCHANGED <<bridgeVars, threadVars, startVars, phoneVars, cacheVars, framerVars, loopVars, viewerVars,
                   touchVars, chat_cancelled, sdk_session, clears>>

\* The number of steps emitted so far in the first n turns.
RECURSIVE EmittedUpTo(_)
EmittedUpTo(n) == IF n = 0 THEN 0 ELSE chat_turns[n].emitted + EmittedUpTo(n - 1)

\* Lines 395-397: the agent emits a step and step_callback puts it on the
\* queue of the turn.
WorkerStep(t) ==
    /\ t \in Running
    /\ EmittedUpTo(Len(chat_turns)) < MaxAgentSteps
    /\ chat_turns' = [chat_turns EXCEPT
                         ![t].emitted = @ + 1,
                         ![t].step_queue = Append(@, chat_turns[t].emitted + 1)]
    /\ UNCHANGED <<bridgeVars, threadVars, startVars, phoneVars, cacheVars, framerVars, loopVars,
                   viewerVars, touchVars, chat_cancelled, chat_lock, executor_queue,
                   sdk_session, clears>>

\* Lines 412-418 and invoke_async lines 785-797: the agent returns. A result
\* saves the SDK session id of its conversation; either way the completion
\* marker is queued and the lock released.
WorkerFinish(t, outcome) ==
    /\ t \in Running
    /\ chat_lock' = IF chat_lock = t THEN 0 ELSE chat_lock
    /\ IF outcome = "ok"
       THEN /\ sdk_session' = chat_turns[t].conv
            /\ chat_turns' = [chat_turns EXCEPT ![t].job = "done",
                                                ![t].step_queue = Append(@, 0)]
       ELSE /\ UNCHANGED sdk_session
            /\ chat_turns' = [chat_turns EXCEPT ![t].job = "failed",
                                                ![t].step_queue = Append(@, 0)]
    /\ UNCHANGED <<bridgeVars, threadVars, startVars, phoneVars, cacheVars, framerVars, loopVars, viewerVars,
                   touchVars, chat_cancelled, executor_queue, clears>>

\* Lines 471-483: the terminal event for a finished invocation.
TerminalOfMutant(job) == "agent_response"
TerminalOf(job) == IF job = "failed" THEN "agent_error" ELSE "agent_response"

\* The agent_step frames of the steps of turn t in q, in order; the
\* completion marker is not sent.
RECURSIVE StepFrames(_, _)
StepFrames(q, t) ==
    IF q = <<>> THEN <<>>
    ELSE IF Head(q) = 0 THEN StepFrames(Tail(q), t)
    ELSE <<Frame("agent_step", <<Head(q)>>, t)>> \o StepFrames(Tail(q), t)

\* Lines 454-458: what the drain loop sends for the steps still queued.
DrainedMutant(q, t) == <<>>
Drained(q, t) == StepFrames(q, t)

\* Lines 444-483: the wait for a step returns. A step is forwarded to the
\* requester and the loop goes round; the completion marker ends the loop and
\* the terminal event is sent; with nothing queued the wait times out.
ChatPoll(t) ==
    /\ t \in Turns
    /\ chat_turns[t].pc = "polling"
    /\ LET q == chat_turns[t].step_queue
       IN  IF q = <<>>
           THEN /\ chat_turns' = [chat_turns EXCEPT ![t].pc = "empty"]
                /\ UNCHANGED wire
           ELSE IF Head(q) = 0
           THEN /\ SendEvent(t, TerminalOf(chat_turns[t].job))
                /\ chat_turns' = [chat_turns EXCEPT
                                     ![t].pc = "finished",
                                     ![t].step_queue = Tail(q),
                                     ![t].terminal = TerminalOf(chat_turns[t].job)]
           ELSE /\ wire' = [wire EXCEPT ![chat_turns[t].from] = @ \o StepFrames(<<Head(q)>>, t)]
                /\ chat_turns' = [chat_turns EXCEPT ![t].pc = LoopTop,
                                                    ![t].step_queue = Tail(q)]
    /\ UNCHANGED <<bridgeVars, threadVars, startVars, phoneVars, cacheVars, framerVars, loopVars, touchVars,
                   clients, hpc, conn, joined_at, exit_cause,
                   chat_cancelled, chat_lock, executor_queue, sdk_session, clears>>

\* Lines 452-461: after a wait that timed out, a finished invocation ends the
\* loop: the steps still queued are sent in order, then the terminal event
\* (no other task touches this queue between these sends); otherwise the
\* loop goes round.
ChatCheck(t) ==
    /\ t \in Turns
    /\ chat_turns[t].pc = "empty"
    /\ IF chat_turns[t].job \in {"done", "failed"}
       THEN /\ wire' = [wire EXCEPT ![chat_turns[t].from] =
                            (@ \o Drained(chat_turns[t].step_queue, t))
                               \o <<Frame(TerminalOf(chat_turns[t].job), <<>>, t)>>]
            /\ chat_turns' = [chat_turns EXCEPT
                                 ![t].pc = "finished",
                                 ![t].step_queue = <<>>,
                                 ![t].terminal = TerminalOf(chat_turns[t].job)]
       ELSE /\ chat_turns' = [chat_turns EXCEPT ![t].pc = LoopTop]
            /\ UNCHANGED wire
    /\ UNCHANGED <<bridgeVars, threadVars, startVars, phoneVars, cacheVars, framerVars, loopVars, touchVars,
                   clients, hpc, conn, joined_at, exit_cause,
                   chat_cancelled, chat_lock, executor_queue, sdk_session, clears>>

\* Drop turn t from the executor's queue.
RECURSIVE Without(_, _)
Without(q, t) ==
    IF q = <<>> THEN <<>>
    ELSE IF Head(q) = t THEN Without(Tail(q), t)
    ELSE <<Head(q)>> \o Without(Tail(q), t)

\* Lines 436-442: what the cancellation path sends before it returns.
SettleSendsMutant(t) == <<>>
SettleSends(t) == <<Frame("agent_response", <<>>, t)>>

\* Lines 427-442: wait_for(agent_future, timeout=2.0) returns, because the
\* invocation has ended or because the 2 s are over, and the terminal done
\* event is sent. On the timeout the future is cancelled: an invocation not
\* yet started (it waits behind a running one) is dropped from the executor,
\* a running one runs on.
ChatSettle(t) ==
    /\ t \in Turns
    /\ chat_turns[t].pc = "settling"
    /\ chat_turns[t].job = "queued" => Running # {}
    /\ executor_queue' = Without(executor_queue, t)
    /\ wire' = [wire EXCEPT ![chat_turns[t].from] = @ \o SettleSends(t)]
    /\ chat_turns' = [chat_turns EXCEPT
                         ![t].pc = "finished",
                         ![t].terminal = "agent_response",
                         ![t].settled = TRUE,
                         ![t].job = IF @ = "queued" THEN "cancelled" ELSE @]
    /\ UNCHANGED <<bridgeVars, threadVars, startVars, phoneVars, cacheVars, framerVars, loopVars, touchVars,
                   clients, hpc, conn, joined_at, exit_cause,
                   chat_cancelled, chat_lock, sdk_session, clears>>

\* ---------------------------------------------------------- phone executor
\* (src/phone_tool.py) The keys of ACTION_REGISTRY.
ACTION_REGISTRY ==
    {"Launch", "Tap", "Type", "Swipe", "Long Press", "Double Tap", "Back", "Home",
     "Wait", "Take_over", "Interact", "finish"}

\* What parse_action may return for the model's answer: finish(...), or
\* do(action=..., app=...). meta is the "_metadata" field.
Act(meta, name, app) == [meta |-> meta, action |-> name, app |-> app]
NoAction == Act("none", "", "")
ModelActions ==
    {Act("finish", "", ""), Act("do", "Tap", ""), Act("do", "Type_Name", ""),
     Act("do", "Launch", "a"), Act("do", "Launch", "b"),
     Act("do", "Take_over", ""), Act("do", "Interact", "")}

\* The allowed_actions and allowed_apps arguments of callers: <<>> for None,
\* <<list>> for a list (as the set of its elements).
AllowedActionsArgs == {<<>>, <<{"Tap"}>>, <<{"Type", "Launch"}>>}
AllowedAppsArgs == {<<>>, <<{"a"}>>}

\* The session ids uuid4 produces, in the order it produces them, and the
\* session_id arguments of callers ("" for None).
SessionIds == <<"s1", "s2">>
SessionIdArgs == {"", "s1", "s2"}

\* The max_steps arguments of callers, and whether guidance is passed.
MaxStepsArgs == {1, 2}
GuidanceArgs == {FALSE, TRUE}

\* What a step meets: the screenshot fails, some call of the step raises, or
\* the step runs on; and, when the action is executed, whether the handler
\* asks to finish or _detect_stuck finds the agent stuck (its heuristics read
\* screens and action history that are not modelled).
StepOutcomes == {"no_screenshot", "raise", "ok", "should_finish", "stuck"}

\* Lines 592-600: None becomes every registered action; finish and Take_over
\* are always added.
NormalizeMutant(arg) == IF arg = <<>> THEN ACTION_REGISTRY ELSE arg[1]
Normalize(arg) ==
    (IF arg = <<>> THEN ACTION_REGISTRY ELSE arg[1]) \cup {"finish", "Take_over"}

\* Line 443: Type_Name is validated as Type.
ValidationName(name) == IF name = "Type_Name" THEN "Type" ELSE name

\* Lines 448-476: the action validation and the app validation of _run_step.
IsBlockedMutant(action, allowed_actions, allowed_apps) ==
    action.meta = "do" /\ ValidationName(action.action) \notin allowed_actions
IsBlocked(action, allowed_actions, allowed_apps) ==
    \/ action.meta = "do" /\ ValidationName(action.action) \notin allowed_actions
    \/ /\ action.meta = "do" /\ action.action = "Launch"
       /\ allowed_apps # <<>>
       /\ action.app \notin allowed_apps[1]

\* The session state of lines 625-634. messages is the history as the kinds
\* of its entries; a flag never set reads as false.
NewState(allowed_actions, allowed_apps) ==
    [step |-> 0, messages |-> <<"system">>, finished |-> FALSE, blocked |-> FALSE,
     stuck |-> FALSE, needs_takeover |-> FALSE, needs_interaction |-> FALSE,
     error |-> FALSE, allowed_actions |-> allowed_actions,
     allowed_apps |-> allowed_apps]

\* Lines 604-616: the stored state of a resumed session, updated in place.
Resumed(state, allowed_actions, allowed_apps, guidance) ==
    [state EXCEPT !.stuck = FALSE, !.needs_takeover = FALSE,
                  !.needs_interaction = FALSE,
                  !.allowed_actions = allowed_actions,
                  !.allowed_apps = allowed_apps,
                  !.messages = IF guidance THEN Append(@, "guidance") ELSE @]

\* _run_step: the state it returns, the action the model chose (none when the
\* screenshot failed) and whether it was passed to ActionHandler.execute.
RunStep(state, action, outcome) ==
    LET stepped == [state EXCEPT !.step = @ + 1]
        told    == [stepped EXCEPT !.messages = @ \o <<"user", "assistant">>]
    IN  IF outcome = "no_screenshot"
        THEN [state |-> [state EXCEPT !.error = TRUE, !.finished = TRUE],
              action |-> NoAction, handled |-> FALSE]
        ELSE IF IsBlocked(action, state.allowed_actions, state.allowed_apps)
        THEN [state |-> [stepped EXCEPT !.blocked = TRUE], action |-> action, handled |-> FALSE]
        ELSE IF action.meta = "finish"
        THEN [state |-> [told EXCEPT !.finished = TRUE], action |-> action, handled |-> FALSE]
        ELSE IF action.action = "Take_over"
        THEN [state |-> [told EXCEPT !.needs_takeover = TRUE], action |-> action, handled |-> FALSE]
        ELSE IF action.action = "Interact"
        THEN [state |-> [told EXCEPT !.needs_interaction = TRUE], action |-> action, handled |-> FALSE]
        ELSE IF outcome = "stuck"
        THEN [state |-> [told EXCEPT !.stuck = TRUE], action |-> action, handled |-> TRUE]
        ELSE IF outcome = "should_finish"
        THEN [state |-> [told EXCEPT !.finished = TRUE], action |-> action, handled |-> TRUE]
        ELSE [state |-> told, action |-> action, handled |-> TRUE]

\* Lines 656-739: the termination checks after a step, in the order of the
\* code: the status returned, or "none" when the loop goes on.
StatusAfter(state) ==
    IF state.finished THEN "completed"
    ELSE IF state.needs_takeover THEN "needs_takeover"
    ELSE IF state.needs_interaction THEN "needs_interaction"
    ELSE IF state.blocked THEN "blocked"
    ELSE IF state.stuck THEN "stuck"
    ELSE IF state.error THEN "error"
    ELSE "none"

\* What a step produced by itself (history): the pause or end it asked for.
EventOf(state, action, outcome) ==
    IF outcome = "raise" THEN "error"
    ELSE IF outcome = "no_screenshot" THEN "error"
    ELSE IF IsBlocked(action, state.allowed_actions, state.allowed_apps) THEN "blocked"
    ELSE IF action.meta = "finish" THEN "finished"
    ELSE IF action.action = "Take_over" THEN "takeover"
    ELSE IF action.action = "Interact" THEN "interaction"
    ELSE IF outcome = "stuck" THEN "stuck"
    ELSE IF outcome = "should_finish" THEN "finished"
    ELSE "none"

\* A PhoneTaskResult (status "none" after a step that lets the loop go on).
\* message is its kind and, for the max-steps message, the number it quotes.
\* History: the call it belongs to (c), the state the call had reached, the
\* action the model chose in the last step, whether it was passed to the
\* handler, and what that step produced.
Result(status, message, state, session_id, c, action, handled, event) ==
    [status |-> status, message |-> message, steps_taken |-> state.step,
     session_id |-> session_id, state |-> state,
     max_steps |-> c.max_steps, ran |-> c.ran, resumed |-> c.resumed,
     actions_arg |-> c.actions_arg,
     action |-> action, handled |-> handled, event |-> event]

Store(id, state) ==
    [i \in (DOMAIN sessions) \cup {id} |-> IF i = id THEN state ELSE sessions[i]]

Delete(id) == [i \in (DOMAIN sessions) \ {id} |-> sessions[i]]

\* execute_task up to its while loop (lines 592-636): the arguments are
\* normalized and the session is resumed, or a new one made under a new id.
\* History: ran counts the steps of this call, history is the stored message
\* history the call found, guided whether guidance was appended to it.
ExecuteTask(max_steps, guidance, session_id, actions_arg, apps_arg) ==
    /\ ~call.active
    /\ calls < MaxCalls
    /\ calls' = calls + 1
    /\ LET allowed == Normalize(actions_arg)
       IN  IF session_id # "" /\ session_id \in DOMAIN sessions
           THEN LET state == Resumed(sessions[session_id], allowed, apps_arg, guidance)
                IN  /\ sessions' = Store(session_id, state)
                    /\ call' = [active |-> TRUE, session_id |-> session_id,
                                max_steps |-> max_steps, state |-> state,
                                ran |-> 0, resumed |-> TRUE,
                                guided |-> guidance,
                                actions_arg |-> actions_arg,
                                history |-> sessions[session_id].messages]
                    /\ UNCHANGED issued
           ELSE /\ issued < Len(SessionIds)
                /\ issued' = issued + 1
                /\ call' = [active |-> TRUE, session_id |-> SessionIds[issued + 1],
                            max_steps |-> max_steps,
                            state |-> NewState(allowed, apps_arg),
                            ran |-> 0, resumed |-> FALSE,
                            guided |-> FALSE,
                            actions_arg |-> actions_arg,
                            history |-> <<>>]
                /\ UNCHANGED sessions
    /\ UNCHANGED <<task_result, bridgeVars, threadVars, cacheVars, framerVars, loopVars,
                   viewerVars, touchVars, startVars, chatVars>>

\* One pass of the while loop (lines 639-739): a step runs and the
\* termination checks return a result or let the loop go on.
TaskStep(action, outcome) ==
    /\ call.active
    /\ call.state.step < call.max_steps
    /\ LET id    == call.session_id
           c     == [call EXCEPT !.ran = @ + 1]
           event == EventOf(call.state, action, outcome)
       IN  IF outcome = "raise"
           THEN /\ sessions' = Store(id, call.state)
                /\ task_result' = Result("error", <<"exception", 0>>, call.state, id,
                                         c, NoAction, FALSE, event)
                /\ call' = NoCall
           ELSE LET r      == RunStep(call.state, action, outcome)
                    status == StatusAfter(r.state)
                IN  IF status = "none"
                    THEN /\ call' = [c EXCEPT !.state = r.state]
                         /\ task_result' = Result("none", <<"", 0>>, r.state, id, c,
                                                  r.action, r.handled, event)
                         /\ UNCHANGED sessions
                    ELSE /\ call' = NoCall
                         /\ task_result' =
                                Result(status, <<status, 0>>, r.state,
                                       IF status = "completed" THEN "" ELSE id,
                                       c, r.action, r.handled, event)
                         /\ sessions' =
                                IF status = "completed" THEN Delete(id)
                                ELSE IF status = "error" THEN sessions
                                ELSE Store(id, r.state)
    /\ UNCHANGED <<issued, calls, bridgeVars, threadVars, cacheVars, framerVars, loopVars,
                   viewerVars, touchVars, startVars, chatVars>>

\* Lines 741-752: the loop condition fails: the session is stored and the
\* call returns stuck with "Reached max steps (n)".
MaxStepsReturn ==
    /\ call.active
    /\ ~(call.state.step < call.max_steps)
    /\ sessions' = Store(call.session_id, call.state)
    /\ task_result' =
           Result("stuck", <<"Reached max steps", call.max_steps>>, call.state,
                  call.session_id, call,
                  IF call.ran = 0 THEN NoAction ELSE task_result.action,
                  IF call.ran = 0 THEN FALSE ELSE task_result.handled,
                  "none")
    /\ call' = NoCall
    /\ UNCHANGED <<issued, calls, bridgeVars, threadVars, cacheVars, framerVars, loopVars,
                   viewerVars, touchVars, startVars, chatVars>>

\* ---------------------------------------------------- phone specification
\* Callers start and resume phone tasks; the model chooses an action at every
\* step.
PhoneNext ==
    \/ \E max_steps \in MaxStepsArgs, guidance \in GuidanceArgs,
          session_id \in SessionIdArgs,
          actions_arg \in AllowedActionsArgs, apps_arg \in AllowedAppsArgs :
           ExecuteTask(max_steps, guidance, session_id, actions_arg, apps_arg)
    \/ \E action \in ModelActions, outcome \in StepOutcomes : TaskStep(action, outcome)
    \/ MaxStepsReturn

SpecPhone == Init /\ [][PhoneNext]_vars

\* -------------------------------------------------- framer specification
\* The framer alone, fed arbitrary chunks of arbitrary bytes.
FramerIngest ==
    /\ Len(ingested) < MaxStream
    /\ \E d \in SeqsUpTo(FramerBytes, MaxStream - Len(ingested)) : Ingest(d)
    /\ UNCHANGED <<bridgeVars, threadVars, startVars, phoneVars, chatVars, cacheVars, loopVars, viewerVars, touchVars>>

FramerNext == FramerIngest

SpecFramer == Init /\ [][FramerNext]_vars

\* ------------------------------------------------ broadcast specification
\* The video loop and the viewers' handlers, interleaved at their awaits.
HubNext ==
    \/ Start
    \/ VideoRecv
    \/ GatherDone
    \/ \E v \in Viewers : LiveSend(v)
    \/ \E v \in Viewers : Join(v)
    \/ \E v \in Viewers : Catchup(v)
    \/ \E v \in Droppable : PeerClose(v)
    \/ \E v \in Viewers : HandlerExit(v)

SpecHub == Init /\ [][HubNext]_vars

\* ----------------------------------------------------- loop specification
\* The video loop under reads that have no data, reads that raise, the end
\* of the stream and stop(), while viewers connect.
LoopNext ==
    \/ Start
    \/ VideoRecv
    \/ VideoNoData
    \/ VideoRaise
    \/ VideoWake
    \/ VideoEnd
    \/ Stop
    \/ VideoStopped
    \/ GatherDone
    \/ \E v \in Viewers : LiveSend(v)
    \/ \E v \in Viewers : Join(v)
    \/ \E v \in Viewers : Catchup(v)
    \/ \E v \in Viewers : HandlerExit(v)

SpecLoop == Init /\ [][LoopNext]_vars

\* ------------------------------------------------- blocking specification
\* The video loop, the viewers' handlers and the synchronous calls their
\* messages make, on the one event-loop thread. The stream is read in chunks of three units.
BlockChunks == {SpsUnit \o PpsUnit \o IdrUnit}

\* A viewer in its message loop presses or lifts at the screen's centre.
BlockTouch ==
    \E v \in Viewers, action \in {"down", "up"}, phys \in QueryResults :
        SendTouch(v, action, 500, 500, phys)

BlockNext ==
    \/ Start
    \/ OnLoop /\ VideoRecvFrom(BlockChunks)
    \/ OnLoop /\ GatherDone
    \/ \E v \in Viewers : OnLoop /\ LiveSend(v)
    \/ \E v \in Viewers : OnLoop /\ Join(v)
    \/ \E v \in Viewers : OnLoop /\ Catchup(v)
    \/ \E v \in Viewers, what \in BlockingCalls : LoopCall(v, what)
    \/ BlockTouch
    \/ \E v \in Viewers, failed \in BOOLEAN : KeyMessage(v, "back", 4, failed)
    \/ \E v \in Viewers : CancelMessage(v)

SpecBlock == Init /\ [][BlockNext]_vars

\* -------------------------------------------------- gesture specification
\* Viewers connect and send touch messages while time passes.
TouchNext ==
    \/ Start
    \/ \E v \in Viewers : Join(v)
    \/ \E v \in Viewers : Catchup(v)
    \/ \E step \in TickSteps : Tick(step)
    \/ TouchMessage

SpecTouch == Init /\ [][TouchNext]_vars

\* ---------------------------------------------------- cache specification
\* The video loop reads a stream in which parameter sets and keyframes
\* recur with different contents, while viewers connect.
CacheNext ==
    \/ Start
    \/ VideoRecvFrom(CacheChunks)
    \/ GatherDone
    \/ \E v \in CacheViewers : LiveSend(v)
    \/ \E v \in CacheViewers : Join(v)
    \/ \E v \in CacheViewers : Catchup(v)

SpecCache == Init /\ [][CacheNext]_vars

\* ---------------------------------------------------- start specification
\* What the first recv(1) of the video socket may return: the liveness byte,
\* another byte, or nothing (the server closed the socket).
Dummies == {DUMMY_BYTE, <<1>>, <<>>}

\* The bridge starts against a server that may refuse connections and may
\* send a wrong liveness byte; viewers connect to a bridge that serves, and
\* the stream may end.
StartNext ==
    \/ \E fails \in 0..CONNECT_ATTEMPTS, dummy \in Dummies : StartSession(fails, dummy)
    \/ \E v \in Viewers : Join(v)
    \/ \E v \in Viewers : Catchup(v)
    \/ VideoEnd
    \/ \E v \in Viewers : HandlerExit(v)

SpecStart == Init /\ [][StartNext]_vars

\* --------------------------------------------------- router specification
\* Viewers connect, send touch and malformed messages, and leave. The video
\* loop writes neither the fan-out set nor the pointer states; here it reads
\* the stream while no viewer is admitted, which fills the caches the
\* catch-up sends of later viewers use.
RouterNext ==
    \/ Start
    \/ (VideoRecv /\ clients = {})
    \/ \E v \in Viewers : Join(v)
    \/ \E v \in Viewers : Catchup(v)
    \/ \E v \in Viewers : PeerClose(v)
    \/ \E v \in Viewers : HandlerExit(v)
    \/ \E v \in Viewers, kind \in MalformedKinds : MalformedMessage(v, kind)
    \/ RouterTouch

SpecRouter == Init /\ [][RouterNext]_vars

\* ----------------------------------------------------- key specification
\* Viewers connect, send key and touch messages, and leave.
KeyNext ==
    \/ Start
    \/ \E v \in Viewers : Join(v)
    \/ \E v \in Viewers : Catchup(v)
    \/ \E v \in Viewers : PeerClose(v)
    \/ \E v \in Viewers : HandlerExit(v)
    \/ \E v \in Viewers, type \in KeyTypes, keycode \in Keycodes, failed \in BOOLEAN :
           KeyMessage(v, type, keycode, failed)
    \/ RouterTouch

SpecKeys == Init /\ [][KeyNext]_vars

\* ----------------------------------------------------- chat specification
\* Viewers connect and send chat and cancel messages; the chat handlers and
\* the executor's worker run interleaved.
HandlerStep ==
    \E t \in 1..MaxTurns :
        ChatBegin(t) \/ ChatSubmit(t) \/ ChatPoll(t) \/ ChatCheck(t) \/ ChatSettle(t)

ChatNext ==
    \/ Start
    \/ \E v \in Viewers : Join(v)
    \/ \E v \in Viewers : Catchup(v)
    \/ \E v \in Viewers, text \in ChatTexts : ChatMessage(v, text)
    \/ \E v \in Viewers : CancelMessage(v)
    \/ \E t \in 1..MaxTurns : ChatBegin(t)
    \/ \E t \in 1..MaxTurns : ChatSubmit(t)
    \/ \E t \in 1..MaxTurns : ChatPoll(t)
    \/ \E t \in 1..MaxTurns : ChatCheck(t)
    \/ \E t \in 1..MaxTurns : ChatSettle(t)
    \/ \E t \in 1..MaxTurns : WorkerStart(t)
    \/ \E t \in 1..MaxTurns, outcome \in AgentOutcomes : WorkerFinish(t, outcome)

SpecChat == Init /\ [][ChatNext]_vars

\* The event loop runs every task that is ready and the executor's worker
\* takes the next invocation when it is idle; nothing says that an agent
\* invocation returns.
SpecChatLive ==
    /\ Init /\ [][ChatNext]_vars
    /\ WF_vars(HandlerStep)
    /\ WF_vars(\E t \in 1..MaxTurns : WorkerStart(t))

\* The chat specification when, besides, every agent invocation returns.
SpecTurnLive ==
    /\ Init /\ [][ChatNext]_vars
    /\ WF_vars(HandlerStep)
    /\ WF_vars(\E t \in 1..MaxTurns : WorkerStart(t))
    /\ WF_vars(\E t \in 1..MaxTurns, outcome \in AgentOutcomes : WorkerFinish(t, outcome))

\* The viewer of the rejection and steps specifications.
StepViewers == {"v1"}

\* ------------------------------------------------ rejection specification
\* One viewer sends chat requests with empty, blank and other texts, and
\* cancel messages.
RejectNext ==
    \/ Start
    \/ \E v \in StepViewers : Join(v)
    \/ \E v \in StepViewers : Catchup(v)
    \/ \E v \in StepViewers, text \in RejectTexts : ChatMessage(v, text)
    \/ \E v \in StepViewers : CancelMessage(v)
    \/ \E t \in 1..MaxTurns : ChatBegin(t)
    \/ \E t \in 1..MaxTurns : ChatSubmit(t)
    \/ \E t \in 1..MaxTurns : ChatPoll(t)
    \/ \E t \in 1..MaxTurns : ChatCheck(t)
    \/ \E t \in 1..MaxTurns : ChatSettle(t)
    \/ \E t \in 1..MaxTurns : WorkerStart(t)
    \/ \E t \in 1..MaxTurns, outcome \in AgentOutcomes : WorkerFinish(t, outcome)

SpecReject == Init /\ [][RejectNext]_vars

\* ---------------------------------------------------- steps specification
\* One viewer sends chat and cancel messages to agents that emit steps while
\* they run.
StepsNext ==
    \/ Start
    \/ \E v \in StepViewers : Join(v)
    \/ \E v \in StepViewers : Catchup(v)
    \/ \E v \in StepViewers : ChatMessage(v, Hi)
    \/ \E v \in StepViewers : CancelMessage(v)
    \/ \E t \in 1..MaxTurns : ChatBegin(t)
    \/ \E t \in 1..MaxTurns : ChatSubmit(t)
    \/ \E t \in 1..MaxTurns : ChatPoll(t)
    \/ \E t \in 1..MaxTurns : ChatCheck(t)
    \/ \E t \in 1..MaxTurns : ChatSettle(t)
    \/ \E t \in 1..MaxTurns : WorkerStart(t)
    \/ \E t \in 1..MaxTurns : WorkerStep(t)
    \/ \E t \in 1..MaxTurns, outcome \in AgentOutcomes : WorkerFinish(t, outcome)

SpecSteps == Init /\ [][StepsNext]_vars

\* ------------------------------------------------ stale-cancel specification
\* No turn is in flight: no chat handler is between clearing the flag and
\* its end.
Quiet == \A t \in Turns : ~InFlight(t)

\* What a viewer writes: "go" when the last thing handled for the flag was a
\* cancel message, "hi" otherwise, so that the text of a turn tells whether a
\* cancel preceded its request.
Go == <<"g", "o">>
QuietText == IF chat_cancelled THEN Go ELSE Hi

\* Viewers send chat messages, and cancel messages only while no turn is in
\* flight. (No handler reaches the cancellation path, so its step is not
\* among the steps below; the property says so.)
QuietNext ==
    \/ Start
    \/ \E v \in Viewers : Join(v)
    \/ \E v \in Viewers : Catchup(v)
    \/ \E v \in Viewers : ChatMessage(v, QuietText)
    \/ \E v \in Viewers : Quiet /\ CancelMessage(v)
    \/ \E t \in 1..MaxTurns : ChatBegin(t)
    \/ \E t \in 1..MaxTurns : ChatSubmit(t)
    \/ \E t \in 1..MaxTurns : ChatPoll(t)
    \/ \E t \in 1..MaxTurns : ChatCheck(t)
    \/ \E t \in 1..MaxTurns : WorkerStart(t)
    \/ \E t \in 1..MaxTurns, outcome \in AgentOutcomes : WorkerFinish(t, outcome)

SpecQuiet == Init /\ [][QuietNext]_vars

\* -------------------------------------------------- session specification
\* The chat specification with new_session messages.
SessionNext ==
    \/ ChatNext
    \/ \E v \in Viewers : NewSessionMessage(v)

SpecSession == Init /\ [][SessionNext]_vars

\* ======================================================================
\* Properties of the framer
\* ======================================================================
\* The start markers of a byte string, by the pattern alone: every occurrence
\* of 00 00 01 is a marker, a 4-byte one when a 00 precedes it. The result is
\* the list of 0-based positions where the markers begin, in order.
RECURSIVE MarkersFrom(_, _, _)
MarkersFrom(s, p, acc) ==
    IF p + 3 > Len(s) THEN acc
    ELSE IF s[p + 1] = 0 /\ s[p + 2] = 0 /\ s[p + 3] = 1
         THEN MarkersFrom(s, p + 3,
                  Append(acc, IF p >= 1 /\ s[p] = 0 THEN p - 1 ELSE p))
    ELSE MarkersFrom(s, p + 1, acc)

Markers(s) == MarkersFrom(s, 0, <<>>)

\* The length of the marker a unit begins with.
MarkerLen(unit) == IF Slice(unit, 0, 4) = <<0, 0, 0, 1>> THEN 4 ELSE 3

\* C1 (as claimed): whenever the ingested stream holds N >= 2 start markers,
\* exactly N-1 units have been yielded, the k-th spanning from the k-th marker
\* to the byte before the (k+1)-th marker, however the stream was split.
C1_UnitsPerMarkerPair ==
    LET ms == Markers(ingested)
    IN  Len(ms) >= 2 =>
            /\ Len(yielded) = Len(ms) - 1
            /\ \A k \in 1..(Len(ms) - 1) :
                   yielded[k] = SubSeq(ingested, ms[k] + 1, ms[k + 1])

\* C2 (as claimed): the units yielded so far followed by the retained buffer
\* are the ingested stream from its first start marker onward.
C2_Original ==
    LET ms == Markers(ingested)
    IN  ms # <<>> => Concat(yielded) \o nal_buffer = SliceFrom(ingested, ms[1])

\* C2 (amended): no ingested byte is lost or duplicated. Until the first unit
\* is yielded the buffer is the whole ingested stream (bytes before the first
\* marker included); from then on the units yielded followed by the buffer are
\* the stream from its first marker onward.
C2_Conservation ==
    LET ms == Markers(ingested)
    IN  IF yielded = <<>>
        THEN nal_buffer = ingested
        ELSE /\ ms # <<>>
             /\ Concat(yielded) \o nal_buffer = SliceFrom(ingested, ms[1])

\* C2 (amended), second half: an ingestion after which the buffered bytes hold
\* fewer than two markers yields no unit and keeps every buffered byte.
C2_FewMarkersKeepAll ==
    LET buf == nal_buffer \o SliceFrom(ingested', Len(ingested))
    IN  Len(Markers(buf)) < 2 =>
            /\ yielded' = yielded
            /\ nal_buffer' = buf

\* C2 (amended): both halves, in every behaviour of the framer.
C2_NoLossNoDup == [](C2_Conservation) /\ [][C2_FewMarkersKeepAll]_framerVars

\* C2 witness: bytes preceded the first marker, a unit has been yielded and
\* an incomplete tail longer than its marker is retained.
C2_Witness ==
    /\ Len(yielded) >= 1
    /\ Markers(ingested) # <<>>
    /\ Markers(ingested)[1] > 0
    /\ Len(nal_buffer) > 4

\* C3 (as claimed): every yielded unit that holds a byte after its marker is
\* typed by the low 5 bits of that byte: SPS for 7, PPS for 8, keyframe for
\* 5, none of them otherwise.
C3_TypeFromHeaderByte ==
    \A k \in 1..Len(yielded) :
        LET u == yielded[k]
            m == MarkerLen(u)
        IN  Len(u) >= m + 1 =>
                /\ GetNalType(u) = u[m + 1] % 32
                /\ IsSps(u) <=> (u[m + 1] % 32 = 7)
                /\ IsPps(u) <=> (u[m + 1] % 32 = 8)
                /\ IsKeyframe(u) <=> (u[m + 1] % 32 = 5)

\* ======================================================================
\* Properties of the broadcast
\* ======================================================================
Connected(v) == hpc[v] \notin {"absent", "closed"}

\* The cache as it was when v joined: every unit processed before the join
\* had passed through it.
CacheAtJoin(v) ==
    CacheFold([sps |-> <<>>, pps |-> <<>>, kf |-> <<>>], SubSeq(yielded, 1, joined_at[v]))

FullAtJoin(v) ==
    /\ hpc[v] # "absent"
    /\ CacheAtJoin(v).sps # <<>>
    /\ CacheAtJoin(v).pps # <<>>
    /\ CacheAtJoin(v).kf # <<>>

\* What the i-th frame of the catch-up prefix must be.
IsPrefixFrame(i, f) ==
    CASE i = 1 -> f.kind = "info"
      [] i = 2 -> f.kind = "catchup" /\ IsSps(f.unit)
      [] i = 3 -> f.kind = "catchup" /\ IsPps(f.unit)
      [] OTHER -> f.kind = "catchup" /\ IsKeyframe(f.unit)

\* C4 (as claimed): a viewer that joined with both parameter sets and a
\* keyframe cached is sent device-info, SPS, PPS, keyframe first and in this
\* order; no live unit comes before the end of that prefix.
C4_CatchupPrefixFirst ==
    \A v \in Viewers :
        FullAtJoin(v) =>
            \A i \in 1..Min(4, Len(wire[v])) : IsPrefixFrame(i, wire[v][i])

IsVideoFrame(f) == f.kind \in {"catchup", "live"}
IsDelta(f) ==
    /\ IsVideoFrame(f)
    /\ ~IsSps(f.unit) /\ ~IsPps(f.unit) /\ ~IsKeyframe(f.unit)

\* The stream begins as a capture server's does: SPS, PPS, keyframe.
StreamHead == SpsUnit \o PpsUnit \o IdrUnit
HeadFirst ==
    LET n == Min(Len(ingested), Len(StreamHead))
    IN  SubSeq(ingested, 1, n) = SubSeq(StreamHead, 1, n)

\* C5 (as claimed, on the streams that begin with SPS, PPS and a keyframe):
\* no viewer is sent a delta unit before it has been sent an SPS, a PPS and a
\* keyframe.
C5_NoDeltaBeforeDecoderState ==
    \A v \in Viewers :
        \A i \in 1..Len(wire[v]) :
            (HeadFirst /\ IsDelta(wire[v][i])) =>
                /\ \E j \in 1..(i - 1) : IsVideoFrame(wire[v][j]) /\ IsSps(wire[v][j].unit)
                /\ \E j \in 1..(i - 1) : IsVideoFrame(wire[v][j]) /\ IsPps(wire[v][j].unit)
                /\ \E j \in 1..(i - 1) : IsVideoFrame(wire[v][j]) /\ IsKeyframe(wire[v][j].unit)

LiveAt(v) == {i \in 1..Len(wire[v]) : wire[v][i].kind = "live"}
LiveSet(v) == {wire[v][i].n : i \in LiveAt(v)}

\* C6: the live units a viewer is sent arrive in parse order.
C6_LiveUnitsInParseOrder ==
    \A v \in Viewers :
        \A i, j \in LiveAt(v) : i < j => wire[v][i].n < wire[v][j].n

\* C6 witness: both viewers were sent the same two live units.
C6_Witness ==
    \E m, n \in 1..Len(yielded) :
        /\ m < n
        /\ \A v \in Viewers : {m, n} \subseteq LiveSet(v)

\* C7 (as claimed): a viewer to which a fan-out send has failed has been
\* taken out of the fan-out set, so no later unit is dispatched to it.
C7_FailedViewerDropped ==
    \A v \in Viewers :
        failed_at[v] # 0 => ~(vpc = "gather" /\ v \in pending)

\* The units a viewer admitted at joined_at[v] is due by now: every unit
\* taken from a batch since, but the current one while its send is pending.
DueSet(v) ==
    {k \in (joined_at[v] + 1)..Processed :
        ~(vpc = "gather" /\ v \in pending /\ k = nal_unit.n)}

\* C8: every admitted viewer whose connection is up has been sent every unit
\* processed since it joined, whatever happened to the sends to the others.
C8_OthersStillServed ==
    \A v \in clients :
        (Connected(v) /\ conn[v] = "open") => LiveSet(v) = DueSet(v)

\* C8 witness: a send to one viewer failed; another viewer was sent that
\* unit and a later one.
C8_Witness ==
    \E v, w \in Viewers :
        /\ v # w
        /\ failed_at[w] # 0
        /\ v \in clients /\ conn[v] = "open"
        /\ failed_at[w] \in LiveSet(v)
        /\ \E k \in LiveSet(v) : k > failed_at[w]

\* ======================================================================
\* Properties of the gesture classification
\* ======================================================================
\* The squared distance (thousandths) of the pair the last message resolved.
GestureD2 == Dist2(gesture.down, gesture.up)

\* The device command the last handled message ended with.
LastCmd == shell_out[Len(shell_out)].cmd

\* The rule of the claim: d/t > 0.3 (no velocity when t = 0), or d > 0.03
\* and t > 0.4.
ClaimedSwipe ==
    \/ (gesture.dt > 0 /\ 100 * GestureD2 > 9 * gesture.dt * gesture.dt)
    \/ (GestureD2 > 900 /\ gesture.dt > 400)

C10_ShortQuickIsTap ==
    (gesture.kind # "none" /\ GestureD2 < 900 /\ gesture.dt < 400)
        => gesture.kind = "tap"

\* C11: a pointer-down that no pointer-up followed within 5 s produces no
\* tap and no swipe: the viewer's next pointer event after the 5 s, whatever
\* its kind, issues no command and leaves no pointer-down recorded for that
\* viewer; and every pair that is resolved was resolved within 5 s.
C11_StaleDownEvicted ==
    /\ (held.from # "none" /\ held.elapsed > 5000) =>
           /\ gesture = NoGesture
           /\ \A k \in 1..Len(shell_out) : shell_out[k].cmd \notin {"tap", "swipe"}
           /\ held.from \in DOMAIN touch_states
           /\ touch_states[held.from].start_pos = <<>>
    /\ (gesture.kind # "none") => gesture.dt <= 5000

\* C11 witness: a pointer event found a pointer-down older than 5 s.
C11_Witness ==
    /\ held.from # "none"
    /\ held.elapsed > 5000

\* A touch message from v handled in this step: a pointer-down or a
\* pointer-up at p.
DownFrom(v, p) == \E phys \in QueryResults : SendTouch(v, "down", p[1], p[2], phys)
UpFrom(v, p) == \E phys \in QueryResults : SendTouch(v, "up", p[1], p[2], phys)

\* No tap and no swipe among the commands cmds.
NoInput(cmds) == \A k \in 1..Len(cmds) : cmds[k].cmd \notin {"tap", "swipe"}

\* C24 (as claimed): after a pointer-down with valid coordinates is handled
\* for a viewer, the viewer's pointer state holds the position and time of
\* that event, whatever pointer-down was recorded before and however old it
\* was, and no tap or swipe was issued.
C24_DownReplaces ==
    [][\A v \in Viewers, p \in TouchPoints :
          DownFrom(v, p) =>
              /\ v \in DOMAIN touch_states'
              /\ touch_states'[v] = [start_pos |-> p, start_time |-> now]
              /\ NoInput(shell_out')]_vars

\* floor(x * W) for a normalized x >= 0 in thousandths: the n with
\* n <= x * W / 1000 < n + 1.
Floor(x, w) == (x * w) \div 1000

\* v has a pointer-down recorded that is not older than 5 s.
HoldsFresh(v) ==
    /\ v \in DOMAIN touch_states
    /\ touch_states[v].start_pos # <<>>
    /\ now - touch_states[v].start_time <= 5000

HoldsNone(v) == v \notin DOMAIN touch_states \/ touch_states[v].start_pos = <<>>

\* C25: a pointer-up that finds a recorded, non-stale pointer-down issues
\* exactly one command and clears the viewer's pointer state: a tap at
\* (floor(x_up*W), floor(y_up*H)), or a swipe from (floor(x_down*W),
\* floor(y_down*H)) to (floor(x_up*W), floor(y_up*H)) with duration 200, W,H
\* being the cached physical resolution; a pointer-up with no pointer-down
\* recorded issues no tap and no swipe.
C25_UpEmitsOneCommand ==
    [][\A v \in Viewers, p \in TouchPoints :
          UpFrom(v, p) =>
              /\ HoldsFresh(v) =>
                     LET d  == touch_states[v].start_pos
                         W  == physical[1]
                         H  == physical[2]
                         x2 == Floor(p[1], W)
                         y2 == Floor(p[2], H)
                     IN  /\ Len(shell_out') = 1
                         /\ \/ shell_out'[1] = ShellCmd("tap", <<x2, y2>>)
                            \/ shell_out'[1] =
                                   ShellCmd("swipe", <<Floor(d[1], W), Floor(d[2], H), x2, y2, 200>>)
                         /\ touch_states'[v].start_pos = <<>>
                         /\ physical' = physical
              /\ HoldsNone(v) =>
                     /\ NoInput(shell_out')
                     /\ HoldsNone(v)']_vars

\* C25 witness: a swipe was issued for a pair resolved on the resolution the
\* device reported, and the viewer's pointer state is cleared.
C25_Witness ==
    /\ gesture.kind = "swipe"
    /\ physical = DevicePhysical
    /\ held.from \in DOMAIN touch_states
    /\ touch_states[held.from].start_pos = <<>>
    /\ Len(shell_out) = 1 /\ shell_out[1].cmd = "swipe"

\* C26: the physical resolution is queried at most once, over any sequence
\* of touch events from any viewers; once a resolution is stored (the one
\* the device reported, or the fallback when the query failed) it never
\* changes, and every pair resolved later is converted with it.
C26_QueriedOnce ==
    /\ [](/\ queries <= 1
          /\ (queries = 0) <=> (physical = <<0, 0>>)
          /\ (queries = 1) => physical \in {<<1440, 3120>>, <<1080, 2340>>}
          /\ (gesture.kind # "none") =>
                 /\ shell_out # <<>>
                 /\ shell_out[Len(shell_out)].args[Len(shell_out[Len(shell_out)].args)
                        - (IF gesture.kind = "swipe" THEN 2 ELSE 1)]
                        = Floor(gesture.up[1], physical[1]))
    /\ [][physical # <<0, 0>> => physical' = physical]_vars

\* C26 witness: the one query failed, the fallback is stored, both viewers
\* have sent touch events and a pair was resolved with the fallback.
C26_Witness ==
    /\ queries = 1
    /\ physical = <<1080, 2340>>
    /\ DOMAIN touch_states = Viewers
    /\ gesture.kind = "tap"
    /\ shell_out = <<ShellCmd("tap", <<Floor(gesture.up[1], 1080), Floor(gesture.up[2], 2340)>>)>>

\* ======================================================================
\* Properties of the chat turns
\* ======================================================================
\* C12: at most one agent invocation executes at any time, and it holds the
\* chat lock: an invocation starts only when no other is running and the
\* lock is free, also when the earlier turn was reported done after a cancel
\* while its worker was still running.
C12_OneInvocationAtATime ==
    /\ Cardinality(Running) <= 1
    /\ \A t \in Running : chat_lock = t
    /\ (Running = {}) => chat_lock = 0

\* C12 witness: a turn was reported done after a cancel while its worker is
\* still running, and the invocation of another turn waits in the executor.
C12_Witness ==
    \E a, b \in Turns :
        /\ chat_turns[a].settled /\ chat_turns[a].pc = "finished"
        /\ chat_turns[a].job = "running"
        /\ chat_turns[b].job = "queued"

\* C13 (as claimed, asking only for some terminal event): once a cancel has
\* been handled while a turn is in flight (the flag is set and the turn's
\* handler has begun and not ended), the requester of that turn is eventually
\* sent the event that ends the turn, whether or not the worker returns and
\* whatever other chat requests start in the meantime.
C13_CancelEndsTurn ==
    \A t \in 1..MaxTurns :
        (t \in Turns /\ InFlight(t) /\ chat_cancelled)
            ~> (t \in Turns /\ chat_turns[t].terminal # "none")

\* C14 (as claimed): a chat request with a non-empty text is never dropped:
\* when its turn has ended, its own agent invocation was executed.
C14_WaitingTurnExecutes ==
    \A t \in Turns :
        (chat_turns[t].text # <<>> /\ chat_turns[t].pc = "finished")
            => chat_turns[t].job \in {"running", "done", "failed"}

\* The agent_error events sent to viewer v, as the turns they belong to.
ErrorsTo(v) == {wire[v][i].n : i \in {j \in 1..Len(wire[v]) : wire[v][j].kind = "agent_error"}}

TurnEvents(t) ==
    LET w == wire[chat_turns[t].from]
        F[i \in 0..Len(w)] ==
            IF i = 0 THEN <<>>
            ELSE IF w[i].n = t /\ w[i].kind \in {"agent_status", "agent_step",
                                                  "agent_response", "agent_error"}
                 THEN Append(F[i - 1], w[i])
                 ELSE F[i - 1]
    IN  F[Len(w)]

\* Only whitespace, or nothing at all.
Blank(text) == \A i \in 1..Len(text) : text[i] \in {" ", "\t", "\n", "\r"}

\* C29: a chat request whose text is empty or only whitespace is answered
\* with one agent_error event to its requester and has no other effect: no
\* thinking status is sent, the agent is not invoked, and the step that
\* rejects it leaves the cancellation flag, the executor and the lock as
\* they are.
C29_BlankRejected ==
    /\ [](\A t \in Turns :
             (Blank(chat_turns[t].text) /\ chat_turns[t].pc # "new") =>
                 /\ chat_turns[t].pc = "finished"
                 /\ chat_turns[t].job = "none"
                 /\ TurnEvents(t) = <<Frame("agent_error", <<>>, t)>>)
    /\ [][\A t \in 1..MaxTurns :
             (t \in Turns /\ Blank(chat_turns[t].text) /\ ChatBegin(t)) =>
                 UNCHANGED <<chat_cancelled, chat_lock, executor_queue, sdk_session>>]_vars

\* C29 witness: a request of blanks only was rejected while the cancellation
\* flag was set and another turn's invocation was running.
C29_Witness ==
    \E a, b \in Turns :
        /\ chat_turns[a].text = <<" ", "\t">>
        /\ chat_turns[a].terminal = "agent_error"
        /\ chat_turns[b].job = "running"
        /\ chat_cancelled

\* The invocation of turn t is queued or running and its handler has not
\* ended.
Busy(t) == InFlight(t) /\ chat_turns[t].job \in {"queued", "running"}

\* C28: while a viewer's chat turn is in flight its handler is back in its
\* message loop: a touch, key, cancel or further chat message of that viewer
\* can be handled at once.
C28_ChatDoesNotBlock ==
    \A t \in Turns :
        Busy(t) =>
            LET v == chat_turns[t].from
            IN  /\ hpc[v] = "recv"
                /\ ENABLED CancelMessage(v)
                /\ ENABLED KeyMessage(v, "back", 4, FALSE)
                /\ ENABLED (\E phys \in QueryResults : SendTouch(v, "down", 500, 500, phys))
                /\ (Len(chat_turns) < MaxTurns) => ENABLED ChatMessage(v, <<"h", "i">>)

\* C28 witness: while the invocation of a viewer's turn runs, a later chat
\* request of the same viewer has been read and begun and a cancel message
\* has been handled.
C28_Witness ==
    \E a, b \in Turns :
        /\ a < b
        /\ chat_turns[a].from = chat_turns[b].from
        /\ Busy(a) /\ chat_turns[a].job = "running"
        /\ chat_turns[b].pc = "thinking"
        /\ chat_cancelled

\* The agent_step frames of steps 1..m of turn t.
StepsTo(t, m) == [i \in 1..m |-> Frame("agent_step", <<i>>, t)]

\* The number of steps waiting in the hand-off queue of turn t.
Waiting(t) == Cardinality({i \in 1..Len(chat_turns[t].step_queue) :
                              chat_turns[t].step_queue[i] # 0})

\* C30: the requester of a turn is sent the thinking status first, then the
\* steps the agent emitted, each once and in emission order; a turn that
\* ended without cancellation was sent every step emitted in it and then,
\* last, its terminal event.
C30_StepsInOrder ==
    \A t \in Turns :
        LET c      == chat_turns[t]
            status == <<Frame("agent_status", <<>>, t)>>
        IN  (c.text # <<>>) =>
                /\ (c.pc = "new") => TurnEvents(t) = <<>>
                /\ (c.pc \notin {"new", "finished"}) =>
                       TurnEvents(t) = status \o StepsTo(t, c.emitted - Waiting(t))
                /\ (c.pc = "finished" /\ ~c.settled) =>
                       /\ c.terminal \in {"agent_response", "agent_error"}
                       /\ TurnEvents(t) =
                              (status \o StepsTo(t, c.emitted))
                                  \o <<Frame(c.terminal, <<>>, t)>>

\* C30 witness: a turn in which the agent emitted two steps ended without
\* cancellation, and another turn was cancelled.
C30_Witness ==
    \E a, b \in Turns :
        /\ chat_turns[a].pc = "finished" /\ ~chat_turns[a].settled
        /\ chat_turns[a].emitted = 2
        /\ chat_turns[b].settled

\* C19 (as claimed): an invocation never continues a conversation that was
\* begun before the last new_session handled before the invocation started.
C19_NewSessionStartsFresh ==
    \A t \in Turns :
        chat_turns[t].job \in {"running", "done", "failed"} =>
            chat_turns[chat_turns[t].conv].epoch = chat_turns[t].epoch

\* ======================================================================
\* Properties of the control router and of the viewer sessions
\* ======================================================================
\* C15 (as claimed): handling a malformed or unrecognized message never ends
\* the viewer's handler: the viewer stays in the fan-out set with its
\* connection open.
C15_MalformedDropped ==
    \A v \in Viewers :
        exit_cause[v] \in MalformedKinds =>
            /\ hpc[v] = "recv"
            /\ conn[v] = "open"
            /\ v \in clients

\* C16: a viewer whose handler has terminated, on whatever exit path, is not
\* in the fan-out set and has no entry in the pointer-state map, in every
\* state from then on.
C16_ExitReleasesViewer ==
    \A v \in Viewers :
        hpc[v] = "closed" =>
            /\ v \notin clients
            /\ v \notin DOMAIN touch_states

\* C16 witness: the handler of a viewer with a recorded pointer-down was
\* terminated by an exception while another viewer keeps its pointer state.
C16_Witness ==
    \E v, w \in Viewers :
        /\ v # w
        /\ hpc[v] = "closed"
        /\ exit_cause[v] = "wrong_type"
        /\ held.from = v
        /\ w \in DOMAIN touch_states

\* The keycode the claim gives for a message.
ClaimedKeycode(type, keycode) ==
    IF type = "back" THEN 4
    ELSE IF type = "home" THEN 3
    ELSE IF type = "recents" THEN 187
    ELSE keycode

\* C27: a back, home, recents or key message results in exactly one device
\* key-event command, with keycode 4, 3, 187 or the message's own, and in
\* nothing else: no pointer state, no fan-out set and no viewer's handler
\* or connection changes, also when the device command fails.
C27_KeyIsOneKeyEvent ==
    [][\A v \in Viewers, type \in KeyTypes, keycode \in Keycodes, failed \in BOOLEAN :
          KeyMessage(v, type, keycode, failed) =>
              /\ Len(shell_out') = 1
              /\ shell_out'[1].cmd = "keyevent"
              /\ shell_out'[1].args = <<ClaimedKeycode(type, keycode)>>
              /\ UNCHANGED <<touch_states, physical, clients, hpc, conn, wire, alive>>
              /\ hpc'[v] = "recv"]_vars

\* C27 witness: the key event of a recents message failed on the device and
\* the viewer that sent it is still served, its recorded pointer-down kept.
C27_Witness ==
    /\ shell_out = <<KeyCmd(187, TRUE)>>
    /\ \E v \in clients :
           /\ hpc[v] = "recv" /\ conn[v] = "open"
           /\ v \in DOMAIN touch_states /\ touch_states[v].start_pos # <<>>

\* ======================================================================
\* Properties of the session start
\* ======================================================================
\* start() met a server whose 30 connection attempts all failed, or whose
\* liveness byte was not 0x00.
HandshakeFailed ==
    /\ handshake # NoHandshake
    /\ (handshake.fails >= 30 \/ handshake.dummy # <<0>>)

\* C17: when every one of the 30 connection attempts fails or the liveness
\* byte is not 0x00, the bridge is never alive, serves no viewer, does not run
\* the video loop, and stop() has run.
C17_FailedStartNeverServes ==
    HandshakeFailed =>
        /\ ~alive
        /\ ~device_info
        /\ vpc = "off"
        /\ clients = {}
        /\ \A v \in Viewers : hpc[v] = "absent"
        /\ stopped

\* C17 witness: the last attempt connected, the liveness byte was wrong, and
\* start() has ended in stop().
C17_Witness ==
    /\ handshake.fails = 29
    /\ handshake.dummy = <<1>>
    /\ stopped

\* ======================================================================
\* Properties of the cached stream state
\* ======================================================================
\* The units the video loop has processed so far, in parse order.
ProcessedUnits == SubSeq(yielded, 1, Processed)

\* The header type of a unit: the low 5 bits of the byte after its marker.
HeaderType(unit) == unit[MarkerLen(unit) + 1] % 32

\* The last unit of header type ty among units, or <<>> when there is none.
LatestOfType(units, ty) ==
    LET at == {k \in 1..Len(units) : HeaderType(units[k]) = ty}
    IN  IF at = {} THEN <<>>
        ELSE units[CHOOSE k \in at : \A j \in at : j <= k]

Chose == task_result # NoResult /\ task_result.action # NoAction

\* An execute_task call has returned.
Returned == task_result # NoResult /\ task_result.status # "none"

\* The rule of the claim, on the arguments the caller passed (<<>> for None):
\* a do-action whose name, Type_Name counted as Type, is not in
\* allowed_actions, or a Launch of an app not in a non-null allowed_apps.
\* With allowed_actions None every registered action is allowed.
NotPermitted(action, actions_arg, apps_arg) ==
    /\ action.meta = "do"
    /\ action.action # "Take_over"
    /\ \/ /\ actions_arg # <<>>
          /\ (IF action.action = "Type_Name" THEN "Type" ELSE action.action)
                 \notin actions_arg[1]
       \/ /\ action.action = "Launch"
          /\ apps_arg # <<>>
          /\ action.app \notin apps_arg[1]

\* C21: an action the model chose that is not permitted is never passed to
\* the action handler and the call returns status blocked; finish and
\* Take_over are never blocked, whatever allowed_actions the caller passed.
C21_OnlyPermittedExecuted ==
    Chose =>
        LET r == task_result
        IN  /\ NotPermitted(r.action, r.actions_arg, r.state.allowed_apps) =>
                   /\ ~r.handled
                   /\ r.status = "blocked"
            /\ (r.action.meta = "finish" \/ r.action.action = "Take_over") =>
                   /\ r.status # "blocked"
                   /\ r.event # "blocked"

\* C21 witness: with Launch allowed and only app a allowed, the model chose
\* to launch app b and the call returned blocked.
C21_Witness ==
    /\ Returned
    /\ task_result.action = Act("do", "Launch", "b")
    /\ "Launch" \in task_result.state.allowed_actions
    /\ task_result.state.allowed_apps = <<{"a"}>>
    /\ task_result.status = "blocked"

\* C22 (as claimed): a call with max_steps = n runs at most n steps, and a
\* call in which no step produced finished, takeover, interaction, blocked,
\* stuck or error returns status stuck with the message
\* "Reached max steps (n)" and the session stored under the returned id.
C22_MaxStepsBound ==
    /\ call.active => call.ran <= call.max_steps
    /\ (Returned /\ ~call.active) =>
           LET r == task_result
           IN  /\ r.ran <= r.max_steps
               /\ r.event = "none" =>
                      /\ r.status = "stuck"
                      /\ r.message = <<"Reached max steps", r.max_steps>>
                      /\ r.session_id \in DOMAIN sessions
                      /\ sessions[r.session_id] = r.state

\* C23 (as claimed): a call that resumes a session with max_steps = n starts
\* from the stored message history, with the guidance appended if any, and
\* does not pause before n further steps have run unless a step of the call
\* asks for it.
C23_ResumeRunsFurtherSteps ==
    /\ (call.active /\ call.resumed /\ call.ran = 0) =>
           call.state.messages =
               call.history \o (IF call.guided THEN <<"guidance">> ELSE <<>>)
    /\ (Returned /\ task_result.resumed /\ task_result.event = "none") =>
           task_result.ran = task_result.max_steps

\* ======================================================================
\* Further properties of the broadcast
\* ======================================================================
\* The parse index of the unit a cache slot holds: the cache holds the
\* latest unit of its type among the units processed so far.
CachedIndex(unit) ==
    LET at == {k \in 1..Processed : yielded[k] = unit}
    IN  IF at = {} THEN 0 ELSE CHOOSE k \in at : \A j \in at : j <= k

\* The frame a step has just appended to the frames sent to v.
Sent(v) == wire'[v][Len(wire'[v])]

\* C31 (as claimed): a viewer is never sent one parsed unit twice: the live
\* units it is sent were processed after its admission, and a unit the
\* catch-up replay sends it is not one the live fan-out has sent it.
C31_NoUnitTwice ==
    /\ [](\A v \in Viewers : \A i \in LiveAt(v) : wire[v][i].n > joined_at[v])
    /\ [][\A v \in Viewers :
             (Len(wire'[v]) = Len(wire[v]) + 1 /\ Sent(v).kind = "catchup") =>
                 CachedIndex(Sent(v).unit) \notin LiveSet(v)]_vars

\* C32: while the bridge is alive neither a read that has no data yet nor an
\* exception raised in an iteration ends the video loop: the loop sleeps and
\* is then back at its read; the loop ends only on an empty read or once
\* alive is false.
C32_LoopSurvives ==
    [][/\ (vpc # "ended" /\ vpc' = "ended") => (VideoEnd \/ ~alive)
       /\ ((VideoNoData \/ VideoRaise) /\ alive') =>
              vpc' \in {"sleep_nodata", "sleep_error"}
       /\ (vpc \in {"sleep_nodata", "sleep_error"} /\ vpc' # vpc) =>
              vpc' = "recv"]_vars

\* C32 witness: with units already broadcast to a viewer, a read raised and
\* the loop is in its pause, the bridge alive.
C32_Witness ==
    /\ alive
    /\ vpc = "sleep_error"
    /\ \E v \in Viewers : LiveSet(v) # {}

\* ======================================================================
\* Properties of the event loop
\* ======================================================================
\* C33 (as claimed): while a device-shell command or the interrupt request
\* made for one viewer's message is outstanding, the event loop can still
\* dispatch the current video unit to the viewers it is pending for and
\* handle a message of another viewer.
C33_CallsOffLoop ==
    loop_busy # Idle =>
        /\ \A v \in Viewers :
               (vpc = "gather" /\ v \in pending) => ENABLED (OnLoop /\ LiveSend(v))
        /\ \A w \in Viewers \ {loop_busy.by} :
               hpc[w] = "recv" => ENABLED KeyMessage(w, "back", 4, FALSE)

\* ======================================================================
\* Further properties of the gestures
\* ======================================================================
\* The pointer state recorded for v, if any.
Entry(v) == IF v \in DOMAIN touch_states THEN <<touch_states[v]>> ELSE <<>>
EntryAfter(v) == IF v \in DOMAIN touch_states' THEN <<touch_states'[v]>> ELSE <<>>

\* A touch message from v is handled in this step.
TouchFrom(v) ==
    \E action \in TouchActions, p \in TouchPoints, phys \in QueryResults :
        SendTouch(v, action, p[1], p[2], phys)

\* C34: the pointer state is per viewer: the pointer state recorded for a
\* viewer changes only when a touch message of that viewer is handled, and a
\* pointer-up is resolved against the pointer-down of the viewer that sent
\* it, which is cleared, while the others' stay as they were.
C34_PointerStatePerViewer ==
    [][/\ \A w \in Viewers : (EntryAfter(w) # Entry(w)) => TouchFrom(w)
       /\ (gesture' # NoGesture /\ touch_states' # touch_states) =>
              \E v \in Viewers :
                  /\ TouchFrom(v)
                  /\ HoldsFresh(v)
                  /\ gesture'.down = touch_states[v].start_pos
                  /\ touch_states'[v].start_pos = <<>>
                  /\ \A w \in Viewers \ {v} : EntryAfter(w) = Entry(w)]_vars

\* C34 witness: a pointer-up of one viewer was resolved against its own
\* pointer-down while another viewer's pointer-down, at another position,
\* stays recorded.
C34_Witness ==
    \E v, w \in Viewers :
        /\ v # w
        /\ gesture # NoGesture
        /\ held.from = v
        /\ v \in DOMAIN touch_states /\ touch_states[v].start_pos = <<>>
        /\ w \in DOMAIN touch_states /\ touch_states[w].start_pos # <<>>
        /\ touch_states[w].start_pos # gesture.down

\* ======================================================================
\* Further properties of the chat turns
\* ======================================================================
\* The terminal events among the events sent for turn t.
Terminals(t) ==
    SelectSeq(TurnEvents(t), LAMBDA f : f.kind \in {"agent_response", "agent_error"})

\* Turn t has ended with one terminal event, the last event sent for it.
EndedOnce(t) ==
    /\ chat_turns[t].pc = "finished"
    /\ Len(Terminals(t)) = 1
    /\ TurnEvents(t)[Len(TurnEvents(t))] = Terminals(t)[1]

\* C35: a turn with a non-blank text is never sent two terminal events, a
\* turn that has ended was sent exactly one, as its last event, and every
\* such turn ends: on the normal path, when the invocation failed and when a
\* cancel was observed.
C35_OneTerminalEvent ==
    /\ [](\A t \in Turns :
             ~Blank(chat_turns[t].text) =>
                 /\ Len(Terminals(t)) <= 1
                 /\ (chat_turns[t].pc = "finished") => EndedOnce(t))
    /\ \A t \in 1..MaxTurns :
           (t \in Turns /\ ~Blank(chat_turns[t].text)) ~> (t \in Turns /\ EndedOnce(t))

\* C35 witness: one turn ended with the response of its invocation, another
\* with the error of its failed invocation, or one of them after a cancel
\* was observed.
C35_Witness ==
    \E a, b \in Turns :
        /\ a # b
        /\ EndedOnce(a) /\ EndedOnce(b)
        /\ chat_turns[a].settled
        /\ chat_turns[b].job = "failed" /\ chat_turns[b].terminal = "agent_error"

\* C36: when cancel messages are handled only while no turn is in flight,
\* no turn is cancelled: every turn clears the flag before it first tests it,
\* so its handler never takes the cancellation path and the turn ends with
\* the terminal event of its own invocation.
C36_StaleCancelIgnored ==
    \A t \in Turns :
        ~Blank(chat_turns[t].text) =>
            /\ chat_turns[t].pc # "settling"
            /\ ~chat_turns[t].settled
            /\ InFlight(t) => ~chat_cancelled
            /\ (chat_turns[t].pc = "finished") =>
                   /\ chat_turns[t].job \in {"done", "failed"}
                   /\ chat_turns[t].terminal = TerminalOf(chat_turns[t].job)

\* C36 witness: a chat request handled with the flag set by an earlier
\* cancel ended with the response of its invocation.
C36_Witness ==
    \E t \in Turns :
        /\ chat_turns[t].text = Go
        /\ chat_turns[t].pc = "finished"
        /\ chat_turns[t].job = "done"
        /\ chat_turns[t].terminal = "agent_response"

\* ======================================================================
\* Further properties of the phone executor
\* ======================================================================
\* C37 (as claimed): a call returns status blocked only when a step of that
\* call chose an action or app that is not permitted, which was not passed to
\* the action handler; a call that resumes a session paused as blocked and
\* whose steps are all permitted is not reported as blocked.
C37_BlockedOnlyByOwnStep ==
    (Returned /\ task_result.status = "blocked") =>
        /\ task_result.ran >= 1
        /\ NotPermitted(task_result.action, task_result.actions_arg,
                        task_result.state.allowed_apps)
        /\ ~task_result.handled

\* The last step of the call that returned could not obtain a screenshot, or
\* the screenshot was flagged sensitive: only line 410 sets the error field.
ScreenshotFailed == Returned /\ task_result.state.error

\* C38 (as claimed): a call in which a step could not obtain a usable
\* screenshot returns status error with the message of that step, and never
\* status completed.
C38_ScreenshotFailureIsError ==
    ScreenshotFailed =>
        /\ task_result.status = "error"
        /\ task_result.message = <<"error", 0>>
        /\ task_result.status # "completed"

====
